---- MODULE Spec2Model ----
(***************************************************************************)
(* Versioned spatial overlay engine of q_assessment_wizard.                *)
(*                                                                         *)
(* The model follows SpatialEngine (core/spatial_engine/engine.py), the    *)
(* use cases that call it, OperationRunner / SpatialAnalyzerLite for the   *)
(* combine step and ProjectManager for the table store.  Names are         *)
(* sequences of one-character strings so that sanitize_table_name and the  *)
(* "__v{n}" suffix are computed, not assumed.                              *)
(***************************************************************************)
EXTENDS Integers, Sequences, FiniteSets, TLC

VARIABLES
    versions,    \* rows of spatial_versions, in insertion order (row i has id i)
    tables,      \* the tables of the project store: name -> content
    last,        \* what the last call returned or raised
    okOverlays,  \* history: successful overlay calls per base name
    onlyOk,      \* history: every call so far was a successful overlay
    faults,      \* history: calls so far in which the store or the layer failed
    naming,      \* a name on its way through sanitize_table_name
    task_details,\* rows of task_details in the metadata store, in rowid order
    task_seq,    \* the last id AUTOINCREMENT gave to a task_details row
    forest,      \* what the last build_task_tree call returned
    projects,    \* rows of projects in the metadata store: id -> row
    project_seq, \* the last id AUTOINCREMENT gave to a projects row
    assessments, \* rows of assessments: id -> row
    assessment_seq,          \* the last id given to an assessments row
    assessment_layers,       \* rows of assessment_layers, in rowid order
    layer_visibility_state,  \* rows of layer_visibility_state
    provenance,  \* rows of provenance: id -> row
    provenance_seq,          \* the last id given to a provenance row
    files,       \* the project store files on disk, by db_path
    admin_last,  \* what the last metadata call returned or raised
    schema,      \* columns of the metadata tables that are migrated: table -> set
    stored_rows, \* rows of those tables by column: table -> sequence
    connects,    \* AdminManager.connect calls made on the metadata file
    connect_status,          \* how the last of them ended
    pc,          \* where a unit of work on the project store stands
    unit,        \* which unit of work it is
    handle,      \* the connection of the unit's ProjectManager, 0 for None
    open_handles,            \* connections to the project store that are open
    units_done,  \* units of work begun so far
    unit_status, \* how the last unit of work ended
    apply_last   \* what the last use case returned or raised

engine == <<versions, tables, last, okOverlays, onlyOk, faults>>

metadata == <<task_details, task_seq, forest>>

admin == <<projects, project_seq, assessments, assessment_seq,
           assessment_layers, layer_visibility_state, provenance,
           provenance_seq, files, admin_last>>

migration == <<schema, stored_rows, connects, connect_status>>

connection == <<pc, unit, handle, open_handles, units_done, unit_status>>

aux == <<migration, connection, apply_last>>

vars == <<versions, tables, last, okOverlays, onlyOk, faults, naming,
          task_details, task_seq, forest, projects, project_seq, assessments,
          assessment_seq, assessment_layers, layer_visibility_state,
          provenance, provenance_seq, files, admin_last,
          schema, stored_rows, connects, connect_status,
          pc, unit, handle, open_handles, units_done, unit_status, apply_last>>

-----------------------------------------------------------------------------
(* Bounds                                                                  *)

\* Overlay is not started once this many version rows exist.
MaxVersions == 3

\* At most this many calls of a run meet a failing store or presentation layer.
MaxFaults == 1

\* Longest layer name given to sanitize_table_name on its own.
MaxNameLen == 5

\* add_task is not called once this many tasks have been recorded.
MaxTasks == 3

-----------------------------------------------------------------------------
(* Characters and names                                                    *)

LowerLetters == <<"a","b","c","d","e","f","g","h","i","j","k","l","m",
                  "n","o","p","q","r","s","t","u","v","w","x","y","z">>
UpperLetters == <<"A","B","C","D","E","F","G","H","I","J","K","L","M",
                  "N","O","P","Q","R","S","T","U","V","W","X","Y","Z">>
Digits == <<"0","1","2","3","4","5","6","7","8","9">>

Range(s) == { s[i] : i \in 1..Len(s) }

DigitChars == Range(Digits)
UpperChars == Range(UpperLetters)
WordChars == Range(LowerLetters) \cup UpperChars \cup DigitChars \cup {"_"}
LowerOf == [c \in UpperChars |->
               LowerLetters[CHOOSE i \in 1..Len(UpperLetters) : UpperLetters[i] = c]]

IsDigit(c) == c \in DigitChars

\* [a-zA-Z0-9_]
IsWordChar(c) == c \in WordChars

\* str.lower() on one character
LowerChar(c) == IF c \in UpperChars THEN LowerOf[c] ELSE c

\* re.sub(r'[^a-zA-Z0-9_]', '_', s) followed by s.lower()
ReplaceAndLower(s) ==
    [i \in 1..Len(s) |-> IF IsWordChar(s[i]) THEN LowerChar(s[i]) ELSE "_"]

\* length of the run of underscores s starts with
RECURSIVE LeadingUnderscores(_)
LeadingUnderscores(s) ==
    IF s = <<>> \/ Head(s) # "_" THEN 0 ELSE 1 + LeadingUnderscores(Tail(s))

\* bug: re.sub(r'_{2,}', '_', s), a double underscore does not survive
RECURSIVE CollapseUnderscores_to_one(_)
CollapseUnderscores_to_one(s) ==
    IF s = <<>> THEN <<>>
    ELSE IF Head(s) = "_"
         THEN <<"_">> \o CollapseUnderscores_to_one(
                            SubSeq(s, LeadingUnderscores(s) + 1, Len(s)))
         ELSE <<Head(s)>> \o CollapseUnderscores_to_one(Tail(s))

\* bug: re.sub(r'_{4,}', '__', s), a run of exactly three underscores is kept
RECURSIVE CollapseUnderscores_from_four(_)
CollapseUnderscores_from_four(s) ==
    IF s = <<>> THEN <<>>
    ELSE IF Head(s) = "_"
         THEN LET n == LeadingUnderscores(s)
              IN (IF n >= 4 THEN <<"_", "_">> ELSE SubSeq(s, 1, n))
                 \o CollapseUnderscores_from_four(SubSeq(s, n + 1, Len(s)))
         ELSE <<Head(s)>> \o CollapseUnderscores_from_four(Tail(s))

\* re.sub(r'_{3,}', '__', s): every maximal run of 3+ underscores becomes "__"
RECURSIVE CollapseUnderscores(_)
CollapseUnderscores(s) ==
    IF s = <<>> THEN <<>>
    ELSE IF Head(s) = "_"
         THEN LET n == LeadingUnderscores(s)
              IN (IF n >= 3 THEN <<"_", "_">> ELSE SubSeq(s, 1, n))
                 \o CollapseUnderscores(SubSeq(s, n + 1, Len(s)))
         ELSE <<Head(s)>> \o CollapseUnderscores(Tail(s))

RECURSIVE StripLeft(_)
StripLeft(s) ==
    IF s # <<>> /\ Head(s) = "_" THEN StripLeft(Tail(s)) ELSE s

RECURSIVE StripRight(_)
StripRight(s) ==
    IF s # <<>> /\ s[Len(s)] = "_" THEN StripRight(SubSeq(s, 1, Len(s) - 1)) ELSE s

\* s.strip('_')
StripUnderscores(s) == StripRight(StripLeft(s))

LayerPrefix == <<"l","a","y","e","r","_">>
UnnamedLayer == <<"u","n","n","a","m","e","d","_","l","a","y","e","r">>

\* ProjectManager.sanitize_table_name
sanitize_table_name(layer_name) ==
    LET stripped == StripUnderscores(CollapseUnderscores(ReplaceAndLower(layer_name)))
        prefixed == IF stripped # <<>> /\ IsDigit(stripped[1])
                    THEN LayerPrefix \o stripped
                    ELSE stripped
    IN IF prefixed # <<>> THEN prefixed ELSE UnnamedLayer

\* SpatialRepository.sanitize_name
sanitize_name(raw_name) == sanitize_table_name(raw_name)

\* str(n) for n >= 0, as in the f-string "{base}__v{version_num}"
RECURSIVE Dec(_)
Dec(n) ==
    IF n < 10 THEN <<Digits[n + 1]>> ELSE Dec(n \div 10) \o <<Digits[(n % 10) + 1]>>

VersionSuffix == <<"_","_","v">>
TmpIntersectSuffix == <<"_","t","m","p","_","i","n","t","e","r","s","e","c","t">>
TmpUnionSuffix == <<"_","t","m","p","_","u","n","i","o","n">>

-----------------------------------------------------------------------------
(* Inputs                                                                  *)

\* Scenario / output names as callers give them (unsanitized).
\* Two of them share a sanitized form; the third is the name of a versioned
\* table of the first two, used as a scenario name of its own.
ScenarioNames == { <<"R"," ","1">>, <<"r","_","1">>,
                   <<"r","_","1","_","_","v","1">> }

Bases == { sanitize_name(n) : n \in ScenarioNames }

\* Layers already migrated into the store: name -> geometry_columns entry.
SourceTables ==
    (<<"t">> :> [split_type |-> "src", target |-> <<>>, assessment |-> <<>>,
                 srid |-> 4326, gtype |-> "POLYGON"])
 @@ (<<"p">> :> [split_type |-> "src", target |-> <<>>, assessment |-> <<>>,
                 srid |-> 4326, gtype |-> "MULTIPOLYGON"])
 @@ (<<"q">> :> [split_type |-> "src", target |-> <<>>, assessment |-> <<>>,
                 srid |-> 3857, gtype |-> "POLYGON"])
 @@ (<<"l">> :> [split_type |-> "src", target |-> <<>>, assessment |-> <<>>,
                 srid |-> 4326, gtype |-> "LINESTRING"])
 @@ (<<"k">> :> [split_type |-> "src", target |-> <<>>, assessment |-> <<>>,
                 srid |-> 3857, gtype |-> "POINT"])

\* Input pairs <<target_table, assessment_table>> of an overlay call.
\* <<"m">> names a table that is not in the store.
GoodPairs == { << <<"t">>, <<"p">> >> }
BadPairs == { << <<"q">>, <<"p">> >>,     \* SRID mismatch
              << <<"l">>, <<"p">> >>,     \* non-polygon target
              << <<"p">>, <<"k">> >>,     \* both checks fail
              << <<"m">>, <<"p">> >>,     \* target table missing
              << <<"t">>, <<"m">> >> }    \* assessment table missing

\* Version ids a caller may pass; the largest one is never the id of a row,
\* and ids of other scenarios are included.
VersionIds == 1..(MaxVersions + 1)

\* Version ids compared: two that may exist and one that never does.
CompareIds == { 1, 2, MaxVersions + 1 }

\* Where the store or the presentation layer fails during a call.
OverlayFaults == { "none", "intersect_query", "intersect_register",
                   "union_query", "union_register", "rename", "drop",
                   "record", "layer" }
RollbackFaults == { "none", "no_db", "layer" }
CompareFaults == { "none", "no_db", "layer_a", "layer_b" }

-----------------------------------------------------------------------------
(* Table store: ProjectManager behind SpatialRepository                    *)

table_exists(tabs, name) == name \in DOMAIN tabs

\* ProjectManager.drop_table: DROP TABLE IF EXISTS, a no-op on a missing table
drop_table(tabs, name) == [n \in (DOMAIN tabs) \ {name} |-> tabs[n]]

PutTable(tabs, name, content) == (name :> content) @@ tabs

\* rename(old, new): the table keeps its content under the new name.
\* It is refused when old is missing or new is already taken.
rename_allowed(tabs, old_name, new_name) ==
    table_exists(tabs, old_name) /\ ~table_exists(tabs, new_name)

rename_table(tabs, old_name, new_name) ==
    PutTable(drop_table(tabs, old_name), new_name, tabs[old_name])

-----------------------------------------------------------------------------
(* Combine: OperationRunner.execute -> SpatialAnalyzerLite                 *)

PolygonTypes == { "POLYGON", "MULTIPOLYGON", "POLYGONZ", "MULTIPOLYGONZ" }

\* SpatialAnalyzerLite.validate_geometry_compatibility: the failed checks
validate_geometry_compatibility(tabs, target_table, assessment_table) ==
    (IF tabs[target_table].srid = tabs[assessment_table].srid
     THEN {} ELSE {"srid"})
    \cup
    (IF tabs[target_table].gtype \in PolygonTypes
        /\ tabs[assessment_table].gtype \in PolygonTypes
     THEN {} ELSE {"type"})

\* bug: the output table is dropped before the inputs are validated
analyze_and_create_layer_drop_first(tabs, target_table, assessment_table, output_table, operation_type, fault) ==
    IF ~table_exists(tabs, target_table) \/ ~table_exists(tabs, assessment_table)
    THEN [tables |-> tabs, status |-> "MissingTable", checks |-> {}]
    ELSE LET failed == validate_geometry_compatibility(tabs, target_table,
                                                       assessment_table)
             cleared == IF table_exists(tabs, output_table)
                        THEN drop_table(tabs, output_table) ELSE tabs
             written == [split_type |-> operation_type,
                         target |-> target_table,
                         assessment |-> assessment_table,
                         srid |-> tabs[target_table].srid,
                         gtype |-> "MULTIPOLYGON"]
         IN IF failed # {}
            THEN [tables |-> cleared, status |-> "GeometryIncompatible",
                  checks |-> failed]
            ELSE IF fault = "query"
            THEN [tables |-> cleared, status |-> "StoreError", checks |-> {}]
            ELSE [tables |-> PutTable(cleared, output_table, written),
                  status |-> IF fault = "register" THEN "StoreError" ELSE "ok",
                  checks |-> {}]

\* SpatialAnalyzerLite.analyze_and_create_layer, called with add_to_qgis=False.
\* fault: "query" (the CREATE TABLE AS query fails), "register" (the table is
\* written and committed, then RecoverGeometryColumn fails), or "none".
analyze_and_create_layer(tabs, target_table, assessment_table, output_table, operation_type, fault) ==
    IF ~table_exists(tabs, target_table) \/ ~table_exists(tabs, assessment_table)
    THEN [tables |-> tabs, status |-> "MissingTable", checks |-> {}]
    ELSE LET failed == validate_geometry_compatibility(tabs, target_table,
                                                       assessment_table)
             cleared == IF table_exists(tabs, output_table)
                        THEN drop_table(tabs, output_table) ELSE tabs
             written == [split_type |-> operation_type,
                         target |-> target_table,
                         assessment |-> assessment_table,
                         srid |-> tabs[target_table].srid,
                         gtype |-> "MULTIPOLYGON"]
         IN IF failed # {}
            THEN [tables |-> tabs, status |-> "GeometryIncompatible",
                  checks |-> failed]
            ELSE IF fault = "query"
            THEN [tables |-> cleared, status |-> "StoreError", checks |-> {}]
            ELSE [tables |-> PutTable(cleared, output_table, written),
                  status |-> IF fault = "register" THEN "StoreError" ELSE "ok",
                  checks |-> {}]

\* OperationRunner.execute
execute(tabs, target_table, assessment_table, output_table, operation, fault) ==
    analyze_and_create_layer(tabs, target_table, assessment_table, output_table,
                             operation, fault)

-----------------------------------------------------------------------------
(* spatial_versions: the version bookkeeping behind SpatialRepository      *)

Reverse(s) == [i \in 1..Len(s) |-> s[Len(s) + 1 - i]]

\* all versions of a scenario, newest first
get_versions(vs, scenario_name) ==
    LET Mine(r) == r.scenario_name = scenario_name
    IN SelectSeq(Reverse(vs), Mine)

\* the row with this id as a one-element sequence, << >> for None
get_version_by_id(vs, version_id) ==
    LET Hit(r) == r.id = version_id
    IN SelectSeq(vs, Hit)

\* the HEAD rows of a scenario
get_current_version(vs, scenario_name) ==
    LET Head_(r) == r.scenario_name = scenario_name /\ r.is_current
    IN SelectSeq(Reverse(vs), Head_)

\* record a new version as HEAD, retiring the previous HEAD of the scenario
create_version(vs, scenario_name, table_name, description, parent_version_id) ==
    [i \in 1..Len(vs) |->
        IF vs[i].scenario_name = scenario_name
        THEN [vs[i] EXCEPT !.is_current = FALSE] ELSE vs[i]]
    \o << [id |-> Len(vs) + 1,
           scenario_name |-> scenario_name,
           table_name |-> table_name,
           description |-> description,
           parent_version_id |-> parent_version_id,
           is_current |-> TRUE] >>

\* is_current = true on the row with this id, false on the other rows of the
\* scenario name
set_current_version(vs, scenario_name, version_id) ==
    [i \in 1..Len(vs) |->
        IF vs[i].id = version_id THEN [vs[i] EXCEPT !.is_current = TRUE]
        ELSE IF vs[i].scenario_name = scenario_name
             THEN [vs[i] EXCEPT !.is_current = FALSE]
             ELSE vs[i]]

-----------------------------------------------------------------------------
(* SpatialEngine                                                           *)

\* what a call leaves in `last`; 0 stands for "no id", << >> for "no table"
NoCall == [op |-> "none", status |-> "none", checks |-> {},
           version_id |-> 0, table |-> <<>>, table_b |-> <<>>]

\* bug: the history is kept under the name as given, not under its sanitized form
overlay_base_unsanitized(output_name) == output_name

\* overlay: base_sanitized = self._repo.sanitize_name(output_name)
overlay_base(output_name) == sanitize_name(output_name)

\* bug: numbering starts at 0
next_version_num_from_zero(existing_versions) == Len(existing_versions)

\* overlay: version_num = len(existing_versions) + 1
next_version_num(existing_versions) == Len(existing_versions) + 1

\* overlay: versioned_name = f"{base_sanitized}__v{version_num}"
versioned_table_name(base_sanitized, version_num) ==
    base_sanitized \o VersionSuffix \o Dec(version_num)

\* bug: the parent is the current version of the scenario, not its newest one
new_parent_id_from_head(existing_versions) ==
    LET Head_(r) == r.is_current
        heads == SelectSeq(existing_versions, Head_)
    IN IF heads # <<>> THEN heads[1].id ELSE 0

\* overlay: parent_id = existing_versions[0]['id'] if existing_versions else None
new_parent_id(existing_versions) ==
    IF existing_versions # <<>> THEN existing_versions[1].id ELSE 0

\* SpatialEngine.overlay: the store after the call and what the caller gets.
\* A step that raises ends the call; the steps before it keep their effect.
overlay_result(vs, tabs, target_table, assessment_table, output_name, fault) ==
    LET base_sanitized == overlay_base(output_name)
        existing_versions == get_versions(vs, base_sanitized)
        version_num == next_version_num(existing_versions)
        versioned_name == versioned_table_name(base_sanitized, version_num)
        tmp_intersect == versioned_name \o TmpIntersectSuffix
        tmp_union == versioned_name \o TmpUnionSuffix
        final_table == versioned_name
        Raised(tabs_, status_, checks_) ==
            [versions |-> vs, tables |-> tabs_, status |-> status_,
             checks |-> checks_, table |-> <<>>, version_id |-> 0]
        s1 == execute(tabs, target_table, assessment_table, tmp_intersect,
                      "intersect",
                      IF fault = "intersect_query" THEN "query"
                      ELSE IF fault = "intersect_register" THEN "register"
                      ELSE "none")
        s2 == execute(s1.tables, target_table, assessment_table, tmp_union,
                      "union",
                      IF fault = "union_query" THEN "query"
                      ELSE IF fault = "union_register" THEN "register"
                      ELSE "none")
        renamed == rename_table(s2.tables, tmp_union, final_table)
        dropped == drop_table(renamed, tmp_intersect)
        parent_id == new_parent_id(existing_versions)
        recorded == create_version(vs, base_sanitized, final_table,
                                   version_num, parent_id)
        version_id == Len(recorded)
    IN IF s1.status # "ok" THEN Raised(s1.tables, s1.status, s1.checks)
       ELSE IF s2.status # "ok" THEN Raised(s2.tables, s2.status, s2.checks)
       ELSE IF fault = "rename" \/ ~rename_allowed(s2.tables, tmp_union, final_table)
       THEN Raised(s2.tables, "StoreError", {})
       ELSE IF fault = "drop" THEN Raised(renamed, "StoreError", {})
       ELSE IF fault = "record" THEN Raised(dropped, "StoreError", {})
       ELSE IF fault = "layer"
       THEN [versions |-> recorded, tables |-> dropped, status |-> "LayerError",
             checks |-> {}, table |-> <<>>, version_id |-> 0]
       ELSE [versions |-> recorded, tables |-> dropped, status |-> "ok",
             checks |-> {}, table |-> final_table, version_id |-> version_id]

\* bug: the HEAD pointer is moved under the name as given
rollback_base_unsanitized(scenario_name) == scenario_name

\* rollback_to_version: base_sanitized = self._repo.sanitize_name(scenario_name)
rollback_base(scenario_name) == sanitize_name(scenario_name)

\* bug: restoring a version deletes the rows recorded after it
rollback_result_truncating(vs, scenario_name, version_id, fault) ==
    LET version == get_version_by_id(vs, version_id)
        moved == set_current_version(SubSeq(vs, 1, version_id),
                                     rollback_base(scenario_name), version_id)
    IN IF fault = "no_db"
       THEN [versions |-> vs, status |-> "NoProjectDb", table |-> <<>>,
             version_id |-> 0]
       ELSE IF version = <<>>
       THEN [versions |-> vs, status |-> "NotFound", table |-> <<>>,
             version_id |-> 0]
       ELSE IF fault = "layer"
       THEN [versions |-> moved, status |-> "LayerError", table |-> <<>>,
             version_id |-> 0]
       ELSE [versions |-> moved, status |-> "ok",
             table |-> version[1].table_name, version_id |-> version_id]

\* SpatialEngine.rollback_to_version under RollbackVersion.execute
rollback_result(vs, scenario_name, version_id, fault) ==
    LET version == get_version_by_id(vs, version_id)
        moved == set_current_version(vs, rollback_base(scenario_name), version_id)
    IN IF fault = "no_db"
       THEN [versions |-> vs, status |-> "NoProjectDb", table |-> <<>>,
             version_id |-> 0]
       ELSE IF version = <<>>
       THEN [versions |-> vs, status |-> "NotFound", table |-> <<>>,
             version_id |-> 0]
       ELSE IF fault = "layer"
       THEN [versions |-> moved, status |-> "LayerError", table |-> <<>>,
             version_id |-> 0]
       ELSE [versions |-> moved, status |-> "ok",
             table |-> version[1].table_name, version_id |-> version_id]

\* bug: the second load_version is given version_id_a again
compare_result_loads_a_twice(vs, version_id_a, version_id_b, fault) ==
    LET version_a == get_version_by_id(vs, version_id_a)
        version_b == get_version_by_id(vs, version_id_a)
        Raised(status_) == [status |-> status_, table |-> <<>>, table_b |-> <<>>]
    IN IF fault = "no_db" THEN Raised("NoProjectDb")
       ELSE IF version_a = <<>> THEN Raised("NotFound")
       ELSE IF fault = "layer_a" THEN Raised("LayerError")
       ELSE IF version_b = <<>> THEN Raised("NotFound")
       ELSE IF fault = "layer_b" THEN Raised("LayerError")
       ELSE [status |-> "ok", table |-> version_a[1].table_name,
             table_b |-> version_b[1].table_name]

\* SpatialEngine.load_version, twice, under CompareVersions.execute
compare_result(vs, version_id_a, version_id_b, fault) ==
    LET version_a == get_version_by_id(vs, version_id_a)
        version_b == get_version_by_id(vs, version_id_b)
        Raised(status_) == [status |-> status_, table |-> <<>>, table_b |-> <<>>]
    IN IF fault = "no_db" THEN Raised("NoProjectDb")
       ELSE IF version_a = <<>> THEN Raised("NotFound")
       ELSE IF fault = "layer_a" THEN Raised("LayerError")
       ELSE IF version_b = <<>> THEN Raised("NotFound")
       ELSE IF fault = "layer_b" THEN Raised("LayerError")
       ELSE [status |-> "ok", table |-> version_a[1].table_name,
             table_b |-> version_b[1].table_name]

\* bug: the history is looked up under the name as given
list_versions_unsanitized(vs, scenario_name) == get_versions(vs, scenario_name)

\* SpatialEngine.get_versions
list_versions(vs, scenario_name) == get_versions(vs, sanitize_name(scenario_name))

-----------------------------------------------------------------------------
(* Result nodes of the task tree: EMDSTreeModel._build_task_items          *)

\* where r'__v\d+$' matches in name
VersionSuffixHits(name) ==
    { i \in 1..Len(name) :
        /\ i + 3 <= Len(name)
        /\ SubSeq(name, i, i + 2) = VersionSuffix
        /\ \A j \in (i + 3)..Len(name) : IsDigit(name[j]) }

\* bug: everything from the first "__v<digit>" on is removed
strip_version_suffix_greedy(table_name) ==
    LET hits == { i \in 1..Len(table_name) :
                    /\ i + 3 <= Len(table_name)
                    /\ SubSeq(table_name, i, i + 2) = VersionSuffix
                    /\ IsDigit(table_name[i + 3]) }
    IN IF hits = {} THEN table_name
       ELSE SubSeq(table_name, 1,
                   (CHOOSE i \in hits : \A j \in hits : i <= j) - 1)

\* scenario_name = re.sub(r'__v\d+$', '', table_name)
strip_version_suffix(table_name) ==
    LET hits == VersionSuffixHits(table_name)
    IN IF hits = {} THEN table_name
       ELSE SubSeq(table_name, 1,
                   (CHOOSE i \in hits : \A j \in hits : i <= j) - 1)

-----------------------------------------------------------------------------
(* The calls                                                               *)

\* the environment fails in at most MaxFaults calls
Inject(fault) ==
    /\ fault # "none" => faults < MaxFaults
    /\ faults' = IF fault # "none" THEN faults + 1 ELSE faults

\* no name is being sanitized on its own
NoNaming == [stage |-> "idle", name |-> <<>>, once |-> <<>>, twice |-> <<>>]

InitStore ==
    /\ versions = <<>>
    /\ tables = SourceTables
    /\ last = NoCall
    /\ okOverlays = [b \in Bases |-> 0]
    /\ onlyOk = TRUE
    /\ faults = 0

\* build_task_tree has not been called
NoForest == [provenance_id |-> 0, roots |-> <<>>]

\* AdminManager.connect on a new admin database: no task recorded
InitMetadata ==
    /\ task_details = <<>>
    /\ task_seq = 0
    /\ forest = NoForest

\* no metadata call has been made
NoAdminCall == [op |-> "none", status |-> "none", id |-> 0]

\* AdminManager.connect on a new admin database: every table is empty
InitAdmin ==
    /\ projects = << >>
    /\ project_seq = 0
    /\ assessments = << >>
    /\ assessment_seq = 0
    /\ assessment_layers = << >>
    /\ layer_visibility_state = {}
    /\ provenance = << >>
    /\ provenance_seq = 0
    /\ files = {}
    /\ admin_last = NoAdminCall

\* the columns the metadata tables get after their original ones, in the
\* order of _migrate_schema
migrations ==
    << <<"projects", "is_deleted">>, <<"projects", "base_layer_names">>,
       <<"projects", "db_type">>, <<"projects", "qgs_project_file">>,
       <<"projects", "db_connection_string">>, <<"projects", "workspace_paths">>,
       <<"assessments", "is_deleted">>, <<"task_details", "engine_type">>,
       <<"task_details", "is_scenario">> >>

MigratedTables == { migrations[k][1] : k \in 1..Len(migrations) }

MigrationColumns(table) ==
    { migrations[k][2] : k \in { j \in 1..Len(migrations) : migrations[j][1] = table } }

\* "id" stands for the columns a table has had from its first schema on
OriginalColumns == { "id" }

\* the columns CREATE TABLE gives a table that does not exist yet
NewColumns(table) == OriginalColumns \cup MigrationColumns(table)

NoApply == [op |-> "none", status |-> "none", output_tables |-> <<>>,
            assessment_name |-> <<>>, target_layer |-> <<>>,
            assessment_layers |-> <<>>, project_db_id |-> 0]

\* the metadata file of a new installation after its first connect, no unit
\* of work begun, no use case run
InitAux ==
    /\ schema = [t \in MigratedTables |-> NewColumns(t)]
    /\ stored_rows = [t \in MigratedTables |-> <<>>]
    /\ connects = 1
    /\ connect_status = "ok"
    /\ pc = "idle"
    /\ unit = "none"
    /\ handle = 0
    /\ open_handles = {}
    /\ units_done = 0
    /\ unit_status = "none"
    /\ apply_last = NoApply

Init ==
    /\ InitStore
    /\ naming = NoNaming
    /\ InitMetadata
    /\ InitAdmin
    /\ InitAux

\* bug: a failed combine or rename is caught and the version is recorded anyway
Overlay_recording_failed(target_table, assessment_table, output_name, fault) ==
    /\ Len(versions) < MaxVersions
    /\ Inject(fault)
    /\ LET out == overlay_result(versions, tables, target_table,
                                 assessment_table, output_name, fault)
           base == sanitize_name(output_name)
           existing == get_versions(versions, base)
           name == versioned_table_name(base, next_version_num(existing))
       IN /\ versions' = IF out.status = "StoreError"
                         THEN create_version(versions, base, name,
                                             next_version_num(existing),
                                             new_parent_id(existing))
                         ELSE out.versions
          /\ tables' = out.tables
          /\ last' = [NoCall EXCEPT !.op = "overlay", !.status = out.status,
                                    !.checks = out.checks,
                                    !.version_id = out.version_id,
                                    !.table = out.table]
          /\ okOverlays' = IF out.status = "ok"
                           THEN [okOverlays EXCEPT ![base] = @ + 1]
                           ELSE okOverlays
          /\ onlyOk' = (onlyOk /\ out.status = "ok")

\* bug: only the newest table of a scenario is kept, the one it replaces is dropped
Overlay_dropping_parent(target_table, assessment_table, output_name, fault) ==
    /\ Len(versions) < MaxVersions
    /\ Inject(fault)
    /\ LET out == overlay_result(versions, tables, target_table,
                                 assessment_table, output_name, fault)
           base == sanitize_name(output_name)
           existing == get_versions(versions, base)
       IN /\ versions' = out.versions
          /\ tables' = IF out.status = "ok" /\ existing # <<>>
                       THEN drop_table(out.tables, existing[1].table_name)
                       ELSE out.tables
          /\ last' = [NoCall EXCEPT !.op = "overlay", !.status = out.status,
                                    !.checks = out.checks,
                                    !.version_id = out.version_id,
                                    !.table = out.table]
          /\ okOverlays' = IF out.status = "ok"
                           THEN [okOverlays EXCEPT ![base] = @ + 1]
                           ELSE okOverlays
          /\ onlyOk' = (onlyOk /\ out.status = "ok")

Overlay(target_table, assessment_table, output_name, fault) ==
    /\ Len(versions) < MaxVersions
    /\ Inject(fault)
    /\ LET out == overlay_result(versions, tables, target_table,
                                 assessment_table, output_name, fault)
           base == sanitize_name(output_name)
       IN /\ versions' = out.versions
          /\ tables' = out.tables
          /\ last' = [NoCall EXCEPT !.op = "overlay", !.status = out.status,
                                    !.checks = out.checks,
                                    !.version_id = out.version_id,
                                    !.table = out.table]
          /\ okOverlays' = IF out.status = "ok"
                           THEN [okOverlays EXCEPT ![base] = @ + 1]
                           ELSE okOverlays
          /\ onlyOk' = (onlyOk /\ out.status = "ok")

\* bug: restoring a version drops the tables of the versions it replaces
Rollback_dropping_replaced(scenario_name, version_id, fault) ==
    LET out == rollback_result(versions, scenario_name, version_id, fault)
        replaced == { versions[i].table_name :
                        i \in { j \in 1..Len(versions) :
                                  /\ versions[j].is_current
                                  /\ ~out.versions[j].is_current } }
    IN /\ Inject(fault)
       /\ versions' = out.versions
       /\ tables' = [t \in (DOMAIN tables) \ replaced |-> tables[t]]
       /\ last' = [NoCall EXCEPT !.op = "rollback", !.status = out.status,
                                 !.version_id = out.version_id,
                                 !.table = out.table]
       /\ onlyOk' = FALSE
       /\ UNCHANGED okOverlays

Rollback(scenario_name, version_id, fault) ==
    LET out == rollback_result(versions, scenario_name, version_id, fault)
    IN /\ Inject(fault)
       /\ versions' = out.versions
       /\ last' = [NoCall EXCEPT !.op = "rollback", !.status = out.status,
                                 !.version_id = out.version_id,
                                 !.table = out.table]
       /\ onlyOk' = FALSE
       /\ UNCHANGED <<tables, okOverlays>>

\* bug: a version is loaded the way rollback loads it, moving HEAD to it
Compare_moving_head(scenario_name, version_id_a, version_id_b, fault) ==
    LET out == compare_result(versions, version_id_a, version_id_b, fault)
    IN /\ Inject(fault)
       /\ last' = [NoCall EXCEPT !.op = "compare", !.status = out.status,
                                 !.table = out.table, !.table_b = out.table_b]
       /\ versions' = IF out.status = "ok"
                      THEN set_current_version(versions,
                                               rollback_base(scenario_name),
                                               version_id_a)
                      ELSE versions
       /\ onlyOk' = FALSE
       /\ UNCHANGED <<tables, okOverlays>>

Compare(scenario_name, version_id_a, version_id_b, fault) ==
    LET out == compare_result(versions, version_id_a, version_id_b, fault)
    IN /\ Inject(fault)
       /\ last' = [NoCall EXCEPT !.op = "compare", !.status = out.status,
                                 !.table = out.table, !.table_b = out.table_b]
       /\ onlyOk' = FALSE
       /\ UNCHANGED <<versions, tables, okOverlays>>

ListVersions(scenario_name) ==
    /\ last' = [NoCall EXCEPT !.op = "list", !.status = "ok"]
    /\ onlyOk' = FALSE
    /\ UNCHANGED <<versions, tables, okOverlays, faults>>

\* A fault is injected only into a call whose inputs pass validation.
OverlayCalls ==
    { <<pr, "none">> : pr \in BadPairs }
    \cup { <<pr, f>> : pr \in GoodPairs, f \in OverlayFaults }

DoOverlay ==
    /\ \E c \in OverlayCalls, n \in ScenarioNames :
          Overlay(c[1][1], c[1][2], n, c[2])
    /\ UNCHANGED <<aux, naming, metadata, admin>>

DoRollback ==
    /\ \E n \in ScenarioNames, v \in VersionIds, f \in RollbackFaults :
          Rollback(n, v, f)
    /\ UNCHANGED <<aux, naming, metadata, admin>>

DoCompare ==
    /\ \E n \in ScenarioNames, a \in CompareIds, b \in CompareIds,
          f \in CompareFaults : Compare(n, a, b, f)
    /\ UNCHANGED <<aux, naming, metadata, admin>>

DoListVersions ==
    /\ \E n \in ScenarioNames : ListVersions(n)
    /\ UNCHANGED <<aux, naming, metadata, admin>>

Next == DoOverlay \/ DoRollback \/ DoCompare \/ DoListVersions

Spec == Init /\ [][Next]_vars

-----------------------------------------------------------------------------
(* sanitize_table_name on its own                                          *)

\* a lower-case letter, an upper-case letter, a digit, the underscore and a
\* character outside [a-zA-Z0-9_]
NameAlphabet == { "a", "B", "1", "_", "-" }

\* every layer name over NameAlphabet of at most MaxNameLen characters
NameInputs == UNION { [1..k -> NameAlphabet] : k \in 0..MaxNameLen }

InitSanitize ==
    /\ InitStore
    /\ InitMetadata
    /\ InitAdmin
    /\ InitAux
    /\ \E x \in NameInputs :
          naming = [stage |-> "given", name |-> x, once |-> <<>>, twice |-> <<>>]

\* the name is sanitized
SanitizeName ==
    /\ naming.stage = "given"
    /\ naming' = [naming EXCEPT !.stage = "once",
                                !.once = sanitize_table_name(naming.name)]
    /\ UNCHANGED <<aux, engine, metadata, admin>>

\* the sanitized name is sanitized again, as when a table name is looked up
SanitizeAgain ==
    /\ naming.stage = "once"
    /\ naming' = [naming EXCEPT !.stage = "twice",
                                !.twice = sanitize_table_name(naming.once)]
    /\ UNCHANGED <<aux, engine, metadata, admin>>

NextSanitize == SanitizeName \/ SanitizeAgain

SpecSanitize == InitSanitize /\ [][NextSanitize]_vars

-----------------------------------------------------------------------------
(* Task tree: AdminManager.add_task / build_task_tree                      *)

\* provenance records of the metadata store
Provenances == { 1, 2 }

\* step_order values given to add_task
StepOrders == { 1, 2 }

\* parent_task_id values given to add_task; 0 stands for None
ParentIds == 0..MaxTasks

TaskIds(rows) == { rows[i].id : i \in 1..Len(rows) }

\* AdminManager._sanitize_name: a file-system safe form of a project name
Unnamed == <<"u","n","n","a","m","e","d">>

admin_sanitize_name(name) ==
    LET sanitized == StripUnderscores(ReplaceAndLower(name))
    IN IF sanitized # <<>> THEN sanitized ELSE Unnamed

\* create_project: db_path = os.path.join("projects", f"{sanitized}.sqlite")
project_db_path(name) == <<"projects/">> \o admin_sanitize_name(name) \o <<".sqlite">>

\* a function without the keys in gone
Without(f, gone) == [k \in (DOMAIN f) \ gone |-> f[k]]

\* the metadata store once a project and a scenario in it have been recorded
InitTasks ==
    /\ InitStore
    /\ naming = NoNaming
    /\ InitMetadata
    /\ InitAux
    /\ projects = (1 :> [name |-> <<"A">>, db_path |-> project_db_path(<<"A">>),
                         is_deleted |-> FALSE])
    /\ project_seq = 1
    /\ assessments = (1 :> [project_id |-> 1, name |-> <<"R","1">>,
                            target_layer |-> <<"t">>, is_deleted |-> FALSE])
    /\ assessment_seq = 1
    /\ assessment_layers = << >>
    /\ layer_visibility_state = {}
    /\ provenance = << >>
    /\ provenance_seq = 0
    /\ files = { project_db_path(<<"A">>) }
    /\ admin_last = NoAdminCall

\* AdminManager.create_provenance.  The insert is refused unless
\* assessment_id is the id of an assessments row.
CreateProvenance(assessment_id) ==
    LET prov_id == provenance_seq + 1
    IN /\ prov_id \in Provenances
       /\ assessment_id \in DOMAIN assessments
       /\ provenance' = (prov_id :> [assessment_id |-> assessment_id])
                            @@ provenance
       /\ provenance_seq' = prov_id

\* task_details after DELETE of the provenance rows in gone: ON DELETE CASCADE
\* removes their tasks, ON DELETE SET NULL clears parent_task_id of the tasks
\* that pointed at a removed task
tasks_after_provenance_delete(rows, gone) ==
    LET Kept(t) == t.provenance_id \notin gone
        kept == SelectSeq(rows, Kept)
    IN [k \in 1..Len(kept) |->
          IF kept[k].parent_task_id \in TaskIds(kept) \cup {0}
          THEN kept[k]
          ELSE [kept[k] EXCEPT !.parent_task_id = 0]]

\* AdminManager.delete_provenance
DeleteProvenance(provenance_id) ==
    /\ provenance' = Without(provenance, {provenance_id})
    /\ task_details' = tasks_after_provenance_delete(task_details, {provenance_id})
    /\ UNCHANGED provenance_seq

\* AdminManager.add_task.  With PRAGMA foreign_keys = ON the insert is
\* refused unless parent_task_id is NULL or the id of a task_details row, the
\* row being inserted included.
AddTask(provenance_id, step_order, parent_task_id) ==
    LET task_id == task_seq + 1
    IN /\ task_seq < MaxTasks
       /\ provenance_id \in DOMAIN provenance
       /\ parent_task_id = 0
            \/ parent_task_id \in TaskIds(task_details) \cup {task_id}
       /\ task_details' = Append(task_details,
                                 [id |-> task_id,
                                  provenance_id |-> provenance_id,
                                  parent_task_id |-> parent_task_id,
                                  step_order |-> step_order])
       /\ task_seq' = task_id
       /\ UNCHANGED forest

\* AdminManager.get_tasks_for_provenance: the rows of the provenance ORDER BY
\* step_order; the order of rows with equal step_order is the store's choice.
get_tasks_for_provenance(rows, provenance_id) ==
    LET mine == { i \in 1..Len(rows) : rows[i].provenance_id = provenance_id }
        n == Cardinality(mine)
        orders == { f \in [1..n -> mine] :
                      /\ \A a, b \in 1..n : a # b => f[a] # f[b]
                      /\ \A a \in 1..(n - 1) :
                            rows[f[a]].step_order <= rows[f[a + 1]].step_order }
    IN { [k \in 1..n |-> rows[f[k]]] : f \in orders }

\* build_task_tree: pid and pid in task_map
HasParentInMap(all_tasks, t) ==
    t.parent_task_id # 0 /\ t.parent_task_id \in TaskIds(all_tasks)

\* build_task_tree: task_map[pid]['children'] after the loop
ChildrenOf(all_tasks, pid) ==
    LET Under(t) == HasParentInMap(all_tasks, t) /\ t.parent_task_id = pid
    IN SelectSeq(all_tasks, Under)

\* build_task_tree: dict(t, children=[...]) as seen from a returned root
RECURSIVE TaskNode(_, _)
TaskNode(all_tasks, t) ==
    LET ch == ChildrenOf(all_tasks, t.id)
    IN [id |-> t.id, provenance_id |-> t.provenance_id,
        parent_task_id |-> t.parent_task_id, step_order |-> t.step_order,
        children |-> [k \in 1..Len(ch) |-> TaskNode(all_tasks, ch[k])]]

\* AdminManager.build_task_tree on the rows the query returned
build_task_tree(all_tasks) ==
    LET Top(t) == ~HasParentInMap(all_tasks, t)
        roots == SelectSeq(all_tasks, Top)
    IN [k \in 1..Len(roots) |-> TaskNode(all_tasks, roots[k])]

BuildTaskTree(provenance_id) ==
    /\ \E all_tasks \in get_tasks_for_provenance(task_details, provenance_id) :
          forest' = [provenance_id |-> provenance_id,
                     roots |-> build_task_tree(all_tasks)]
    /\ UNCHANGED <<task_details, task_seq>>

DoCreateProvenance ==
    /\ \E a \in DOMAIN assessments : CreateProvenance(a)
    /\ UNCHANGED <<aux, engine, naming, metadata, projects, project_seq,
                   assessments, assessment_seq, assessment_layers,
                   layer_visibility_state, files, admin_last>>

DoDeleteProvenance ==
    /\ \E p \in DOMAIN provenance : DeleteProvenance(p)
    /\ UNCHANGED <<aux, engine, naming, task_seq, forest, projects, project_seq,
                   assessments, assessment_seq, assessment_layers,
                   layer_visibility_state, files, admin_last>>

DoAddTask ==
    /\ \E p \in Provenances, o \in StepOrders, parent \in ParentIds :
          AddTask(p, o, parent)
    /\ UNCHANGED <<aux, engine, naming, admin>>

DoBuildTaskTree ==
    /\ \E p \in Provenances : BuildTaskTree(p)
    /\ UNCHANGED <<aux, engine, naming, admin>>

NextTasks ==
    DoCreateProvenance \/ DoDeleteProvenance \/ DoAddTask \/ DoBuildTaskTree

SpecTasks == InitTasks /\ [][NextTasks]_vars

(***************************************************************************)
(* The admin database: projects, scenarios and the rows that depend on     *)
(* them, with the project store files on disk.                             *)
(***************************************************************************)

MaxProjects == 2
MaxAssessments == 2

\* "A" and "a" are different project names with the same store file
ProjectNames == { <<"A">>, <<"a">> }

AdminScenarioNames == { <<"R"," ","1">>, <<"r","_","1">> }

ProjectIds == 1..MaxProjects
AssessmentIds == 1..MaxAssessments

\* what the wizard hands to record_assessment: the assessment layers and the
\* result tables
WizardLayers == { <<>>, << <<"p">> >> }

AdminCall(op, status, id) == [op |-> op, status |-> status, id |-> id]

\* UNIQUE on projects.name covers every row, soft-deleted ones included
project_name_taken(name) == \E i \in DOMAIN projects : projects[i].name = name

\* how ProjectManager.connect ends inside create_project: it returns, or
\* sqlite3.connect raises, or _load_spatialite raises, or InitSpatialMetaData
\* or _create_tables raises
StoreOutcomes == { "ok", "connect", "load", "init" }

\* AdminManager.create_project: the INSERT is committed, then
\* pm = ProjectManager(abs_db_path); pm.connect(); pm.disconnect().
\* sqlite3.connect creates the file; a connect that raises after it leaves
\* the connection of pm open (the handle is numbered by the project id)
create_project(name, store) ==
    LET project_id == project_seq + 1
        db_path == project_db_path(name)
    IN /\ project_name_taken(name) \/ project_id \in ProjectIds
       /\ IF project_name_taken(name)
          THEN /\ admin_last' = AdminCall("create_project", "error", 0)
               /\ UNCHANGED <<projects, project_seq, files, open_handles>>
          ELSE /\ projects' = (project_id :> [name |-> name, db_path |-> db_path,
                                              is_deleted |-> FALSE]) @@ projects
               /\ project_seq' = project_id
               /\ files' = IF store = "connect" THEN files
                           ELSE files \cup {db_path}
               /\ open_handles' = IF store \in {"load", "init"}
                                  THEN open_handles \cup {project_id}
                                  ELSE open_handles
               /\ admin_last' = IF store = "ok"
                                THEN AdminCall("create_project", "ok", project_id)
                                ELSE AdminCall("create_project", "StoreError", 0)
       /\ UNCHANGED <<assessments, assessment_seq, assessment_layers,
                      layer_visibility_state, provenance, provenance_seq>>

\* create_project with whatever the store does
CreateProject(name) == \E store \in StoreOutcomes : create_project(name, store)

\* bug: the scenarios of the project keep their flag
DeleteProject_only_project(project_id) ==
    /\ projects' = [i \in DOMAIN projects |->
                      IF i = project_id
                      THEN [projects[i] EXCEPT !.is_deleted = TRUE]
                      ELSE projects[i]]
    /\ admin_last' = AdminCall("delete_project", "ok", project_id)
    /\ UNCHANGED <<project_seq, assessments, assessment_seq, assessment_layers,
                   layer_visibility_state, provenance, provenance_seq, files>>

\* AdminManager.delete_project: two UPDATEs, no row of either table removed
DeleteProject(project_id) ==
    /\ projects' = [i \in DOMAIN projects |->
                      IF i = project_id
                      THEN [projects[i] EXCEPT !.is_deleted = TRUE]
                      ELSE projects[i]]
    /\ assessments' = [a \in DOMAIN assessments |->
                         IF assessments[a].project_id = project_id
                         THEN [assessments[a] EXCEPT !.is_deleted = TRUE]
                         ELSE assessments[a]]
    /\ admin_last' = AdminCall("delete_project", "ok", project_id)
    /\ UNCHANGED <<project_seq, assessment_seq, assessment_layers,
                   layer_visibility_state, provenance, provenance_seq, files>>

\* the rows left after DELETE of the assessments in gone, by ON DELETE CASCADE
assessment_layers_without(gone) ==
    LET Kept(r) == r.assessment_id \notin gone
    IN SelectSeq(assessment_layers, Kept)

visibility_without(gone) ==
    { r \in layer_visibility_state : r.assessment_id \notin gone }

provenance_of(gone) ==
    { p \in DOMAIN provenance : provenance[p].assessment_id \in gone }

\* DELETE FROM assessments for the ids in gone, with its cascades
PurgeAssessments(gone) ==
    /\ assessments' = Without(assessments, gone)
    /\ assessment_layers' = assessment_layers_without(gone)
    /\ layer_visibility_state' = visibility_without(gone)
    /\ provenance' = Without(provenance, provenance_of(gone))
    /\ task_details' = tasks_after_provenance_delete(task_details,
                                                     provenance_of(gone))
    /\ UNCHANGED <<assessment_seq, provenance_seq, task_seq, forest>>

assessments_of_project(project_id) ==
    { a \in DOMAIN assessments : assessments[a].project_id = project_id }

\* AdminManager.purge_project.  removable is whether os.remove succeeds on the
\* store file; its OSError is caught and printed.
PurgeProject(project_id, removable) ==
    /\ projects' = Without(projects, {project_id})
    /\ PurgeAssessments(assessments_of_project(project_id))
    /\ files' = IF /\ project_id \in DOMAIN projects
                   /\ projects[project_id].db_path \in files
                   /\ removable
                THEN files \ {projects[project_id].db_path}
                ELSE files
    /\ admin_last' = AdminCall("purge_project", "ok", project_id)
    /\ UNCHANGED project_seq

\* bug: the names of soft-deleted scenarios are free again
assessment_name_exists_active(project_id, assessment_name) ==
    \E a \in DOMAIN assessments :
        /\ assessments[a].project_id = project_id
        /\ assessments[a].name = assessment_name
        /\ ~assessments[a].is_deleted

\* bug: names are compared by the table name they sanitize to
assessment_name_exists_sanitized(project_id, assessment_name) ==
    \E a \in DOMAIN assessments :
        /\ assessments[a].project_id = project_id
        /\ sanitize_table_name(assessments[a].name)
              = sanitize_table_name(assessment_name)

\* AdminManager.assessment_name_exists; UNIQUE(project_id, name) on
\* assessments covers soft-deleted rows too
assessment_name_exists(project_id, assessment_name) ==
    \E a \in DOMAIN assessments :
        /\ assessments[a].project_id = project_id
        /\ assessments[a].name = assessment_name

\* bug: no UNIQUE(project_id, name) on assessments
create_assessment_refused_fk_only(project_id, name) ==
    project_id \notin DOMAIN projects

\* AdminManager.create_assessment refuses the insert when the project row
\* is missing (foreign key) or the name is taken in the project
create_assessment_refused(project_id, name) ==
    \/ project_id \notin DOMAIN projects
    \/ assessment_name_exists(project_id, name)

LayerRows(assessment_id, names, layer_type) ==
    [k \in 1..Len(names) |-> [assessment_id |-> assessment_id,
                              layer_name |-> names[k],
                              layer_type |-> layer_type]]

\* str.replace(' ', '_')
replace_spaces(name) ==
    [i \in 1..Len(name) |-> IF name[i] = " " THEN "_" ELSE name[i]]

\* ApplyOverlay._make_base_name
make_base_name(project_id, assessment_name, layer_name, layer_count) ==
    IF layer_count = 1
    THEN project_id \o <<"_","_">> \o assessment_name
    ELSE project_id \o <<"_","_">> \o assessment_name \o <<"_">>
           \o replace_spaces(layer_name)

\* MainForm._get_project_name: the display name of the project, which the
\* executor uses as the prefix of its table names; '' when there is none
project_prefix(project_db_id) ==
    IF project_db_id \in DOMAIN projects THEN projects[project_db_id].name
    ELSE <<>>

\* the result tables the wizard reports for its assessment layers: the first
\* version of each layer's base name
OutputTables(project_id, name, layers) ==
    [k \in 1..Len(layers) |->
        versioned_table_name(
            sanitize_name(make_base_name(project_id, name, layers[k], Len(layers))),
            1)]

\* AssessmentExecutor.record_assessment: create_assessment with its layer
\* rows, set_layer_visibility for every result table, and _record_provenance
\* (create_provenance and add_task) when there are assessment layers.  Any
\* exception is caught and None returned.
RecordAssessment(project_id, name, target_layer, layers, outputs) ==
    LET assessment_id == assessment_seq + 1
        prov_id == provenance_seq + 1
        task_id == task_seq + 1
    IN /\ \/ create_assessment_refused(project_id, name)
          \/ /\ assessment_id \in AssessmentIds
             /\ layers # <<>> => prov_id \in Provenances /\ task_seq < MaxTasks
       /\ IF create_assessment_refused(project_id, name)
          THEN /\ admin_last' = AdminCall("create_assessment", "error", 0)
               /\ UNCHANGED <<assessments, assessment_seq, assessment_layers,
                              layer_visibility_state, provenance,
                              provenance_seq, task_details, task_seq>>
          ELSE /\ assessments' =
                     (assessment_id :> [project_id |-> project_id, name |-> name,
                                        target_layer |-> target_layer,
                                        is_deleted |-> FALSE]) @@ assessments
               /\ assessment_seq' = assessment_id
               /\ assessment_layers' =
                     assessment_layers
                       \o LayerRows(assessment_id, layers, "input")
                       \o LayerRows(assessment_id, outputs, "output")
               /\ layer_visibility_state' =
                     layer_visibility_state
                       \cup { [assessment_id |-> assessment_id,
                               layer_name |-> outputs[k], visible |-> TRUE] :
                              k \in 1..Len(outputs) }
               /\ IF layers # <<>>
                  THEN /\ provenance' =
                             (prov_id :> [assessment_id |-> assessment_id])
                                @@ provenance
                       /\ provenance_seq' = prov_id
                       /\ task_details' =
                             Append(task_details,
                                    [id |-> task_id, provenance_id |-> prov_id,
                                     parent_task_id |-> 0, step_order |-> 1])
                       /\ task_seq' = task_id
                  ELSE UNCHANGED <<provenance, provenance_seq, task_details,
                                   task_seq>>
               /\ admin_last' = AdminCall("create_assessment", "ok",
                                          assessment_id)
       /\ UNCHANGED <<projects, project_seq, files, forest>>

\* AdminManager.delete_assessment
DeleteAssessment(assessment_id) ==
    /\ assessments' = [a \in DOMAIN assessments |->
                         IF a = assessment_id
                         THEN [assessments[a] EXCEPT !.is_deleted = TRUE]
                         ELSE assessments[a]]
    /\ admin_last' = AdminCall("delete_assessment", "ok", assessment_id)
    /\ UNCHANGED <<projects, project_seq, assessment_seq, assessment_layers,
                   layer_visibility_state, provenance, provenance_seq, files>>

\* AdminManager.purge_assessment
PurgeAssessment(assessment_id) ==
    /\ PurgeAssessments({assessment_id})
    /\ admin_last' = AdminCall("purge_assessment", "ok", assessment_id)
    /\ UNCHANGED <<projects, project_seq, files>>

DoCreateProject ==
    /\ \E name \in ProjectNames : CreateProject(name)
    /\ UNCHANGED <<engine, naming, metadata, migration, apply_last,
                   pc, unit, handle, units_done, unit_status>>

DoDeleteProject ==
    /\ \E p \in ProjectIds : DeleteProject(p)
    /\ UNCHANGED <<aux, engine, naming, metadata>>

DoPurgeProject ==
    /\ \E p \in ProjectIds, removable \in BOOLEAN : PurgeProject(p, removable)
    /\ UNCHANGED <<aux, engine, naming>>

DoRecordAssessment ==
    /\ \E p \in ProjectIds, name \in AdminScenarioNames, layers \in WizardLayers :
          RecordAssessment(p, name, <<"t">>, layers,
                           OutputTables(project_prefix(p), name, layers))
    /\ UNCHANGED <<aux, engine, naming>>

DoDeleteAssessment ==
    /\ \E a \in AssessmentIds : DeleteAssessment(a)
    /\ UNCHANGED <<aux, engine, naming, metadata>>

DoPurgeAssessment ==
    /\ \E a \in AssessmentIds : PurgeAssessment(a)
    /\ UNCHANGED <<aux, engine, naming>>

NextAdmin ==
    \/ DoCreateProject
    \/ DoDeleteProject
    \/ DoPurgeProject
    \/ DoRecordAssessment
    \/ DoDeleteAssessment
    \/ DoPurgeAssessment

SpecAdmin == Init /\ [][NextAdmin]_vars

(***************************************************************************)
(* Layer visibility state                                                  *)
(***************************************************************************)

\* layer names whose check box the user toggles
VisibilityLayers == { <<"x">>, <<"y">> }

VisibilityRow(assessment_id, layer_name, visible) ==
    [assessment_id |-> assessment_id, layer_name |-> layer_name,
     visible |-> visible]

\* bug: INSERT without OR REPLACE and without the primary key
visibility_insert(rows, assessment_id, layer_name, visible) ==
    rows \cup { VisibilityRow(assessment_id, layer_name, visible) }

\* INSERT OR REPLACE under PRIMARY KEY (assessment_id, layer_name): the row
\* of the pair, if any, is deleted and the new one inserted
visibility_insert_or_replace(rows, assessment_id, layer_name, visible) ==
    { r \in rows : ~(r.assessment_id = assessment_id /\ r.layer_name = layer_name) }
      \cup { VisibilityRow(assessment_id, layer_name, visible) }

\* AdminManager.set_layer_visibility.  The insert is refused unless
\* assessment_id is the id of an assessments row.
SetLayerVisibility(assessment_id, layer_name, visible) ==
    /\ IF assessment_id \in DOMAIN assessments
       THEN /\ layer_visibility_state' =
                  visibility_insert_or_replace(layer_visibility_state,
                                               assessment_id, layer_name, visible)
            /\ admin_last' = AdminCall("set_layer_visibility", "ok", assessment_id)
       ELSE /\ admin_last' = AdminCall("set_layer_visibility", "error", assessment_id)
            /\ UNCHANGED layer_visibility_state
    /\ UNCHANGED <<projects, project_seq, assessments, assessment_seq,
                   assessment_layers, provenance, provenance_seq, files>>

\* AdminManager.get_layer_visibility: {layer_name: bool} over the rows of the
\* scenario, as the set of its (layer_name, visible) items
get_layer_visibility(rows, assessment_id) ==
    LET mine == { r \in rows : r.assessment_id = assessment_id }
        names == { r.layer_name : r \in mine }
    IN { <<n, (CHOOSE r \in mine : r.layer_name = n).visible>> : n \in names }

DoSetLayerVisibility ==
    /\ \E a \in AssessmentIds, l \in VisibilityLayers, visible \in BOOLEAN :
          SetLayerVisibility(a, l, visible)
    /\ UNCHANGED <<aux, engine, naming, metadata>>

NextVisibility ==
    DoSetLayerVisibility \/ DoRecordAssessment \/ DoPurgeAssessment

SpecVisibility == InitTasks /\ [][NextVisibility]_vars

(***************************************************************************)
(* Schema migration of the metadata file: AdminManager.connect             *)
(***************************************************************************)

MaxConnects == 2

\* a table that does not exist has no column
TableMissing(sch, table) == sch[table] = {}

\* the database files connect may find: every table is missing or has its
\* original columns and any of the later ones, with no row or one row
ColumnsOnDisk(table) ==
    { {} } \cup { OriginalColumns \cup later : later \in SUBSET MigrationColumns(table) }

SchemasOnDisk ==
    { [projects |-> p, assessments |-> a, task_details |-> t] :
        p \in ColumnsOnDisk("projects"), a \in ColumnsOnDisk("assessments"),
        t \in ColumnsOnDisk("task_details") }

RowsOfTable(sch, table) ==
    IF TableMissing(sch, table) THEN { <<>> }
    ELSE { <<>>, << [c \in sch[table] |-> "v"] >> }

RowsOnDisk(sch) ==
    { [projects |-> p, assessments |-> a, task_details |-> t] :
        p \in RowsOfTable(sch, "projects"), a \in RowsOfTable(sch, "assessments"),
        t \in RowsOfTable(sch, "task_details") }

\* _create_tables: CREATE TABLE IF NOT EXISTS
create_tables(sch) ==
    [t \in MigratedTables |-> IF TableMissing(sch, t) THEN NewColumns(t) ELSE sch[t]]

\* ALTER TABLE table ADD COLUMN column: every row gets the column's default
add_column(db, table, column) ==
    [db EXCEPT !.schema[table] = @ \cup {column},
               !.rows[table] = [k \in 1..Len(@) |->
                                   [c \in DOMAIN @[k] \cup {column} |->
                                       IF c = column THEN "default" ELSE @[k][c]]]]

\* bug: the error of ALTER TABLE for a column that is there is not caught
migration_step_uncaught(db, table, column) ==
    IF db.raised THEN db
    ELSE IF column \in db.schema[table] THEN [db EXCEPT !.raised = TRUE]
    ELSE add_column(db, table, column)

\* one turn of the loop of _migrate_schema: try ALTER TABLE, except pass
migration_step(db, table, column) ==
    IF column \in db.schema[table] THEN db ELSE add_column(db, table, column)

RECURSIVE migrate_from(_, _)
migrate_from(db, k) ==
    IF k > Len(migrations) THEN db
    ELSE migrate_from(migration_step(db, migrations[k][1], migrations[k][2]), k + 1)

\* _migrate_schema
migrate_schema(sch, rows) ==
    migrate_from([schema |-> sch, rows |-> rows, raised |-> FALSE], 1)

\* a metadata file as found on disk, not yet connected to
InitMigrate ==
    /\ InitStore
    /\ naming = NoNaming
    /\ InitMetadata
    /\ InitAdmin
    /\ schema \in SchemasOnDisk
    /\ stored_rows \in RowsOnDisk(schema)
    /\ connects = 0
    /\ connect_status = "none"
    /\ pc = "idle"
    /\ unit = "none"
    /\ handle = 0
    /\ open_handles = {}
    /\ units_done = 0
    /\ unit_status = "none"
    /\ apply_last = NoApply

\* AdminManager.connect
Connect ==
    LET db == migrate_schema(create_tables(schema), stored_rows)
    IN /\ connects < MaxConnects
       /\ schema' = db.schema
       /\ stored_rows' = db.rows
       /\ connects' = connects + 1
       /\ connect_status' = IF db.raised THEN "error" ELSE "ok"

DoConnect ==
    /\ Connect
    /\ UNCHANGED <<engine, naming, metadata, admin, connection, apply_last>>

NextMigrate == DoConnect

SpecMigrate == InitMigrate /\ [][NextMigrate]_vars

(***************************************************************************)
(* The connection of a unit of work: with SpatialEngine(db_path) as engine *)
(***************************************************************************)

MaxUnits == 3

\* the blocks that open an engine: ApplyOverlay and rerun, RollbackVersion,
\* CompareVersions, the version panel
UnitsOfWork == { "overlay", "rollback", "compare", "list_versions" }

\* the with statement is entered: SpatialEngine.__enter__ calls open, which
\* builds the SpatialRepository and its ProjectManager
BeginUnit(u) ==
    /\ pc = "idle"
    /\ units_done < MaxUnits
    /\ pc' = "connect"
    /\ unit' = u
    /\ handle' = 0
    /\ units_done' = units_done + 1
    /\ unit_status' = "running"
    /\ UNCHANGED open_handles

\* an exception leaves __enter__: the with statement does not run __exit__
RaiseInEnter ==
    /\ pc' = "idle"
    /\ unit_status' = "raised"
    /\ UNCHANGED <<unit, handle, open_handles, units_done>>

\* ProjectManager.connect: self.connection = sqlite3.connect(self.db_path)
SqliteConnect(ok) ==
    /\ pc = "connect"
    /\ IF ok
       THEN /\ handle' = units_done
            /\ open_handles' = open_handles \cup {units_done}
            /\ pc' = "load"
            /\ UNCHANGED <<unit, units_done, unit_status>>
       ELSE RaiseInEnter

\* ProjectManager.connect: enable_load_extension and _load_spatialite, which
\* raises when no path loads the extension
LoadSpatialite(ok) ==
    /\ pc = "load"
    /\ IF ok
       THEN /\ pc' = "init"
            /\ UNCHANGED <<unit, handle, open_handles, units_done, unit_status>>
       ELSE RaiseInEnter

\* ProjectManager.connect: InitSpatialMetaData for a new file, _create_tables
InitStoreTables(ok) ==
    /\ pc = "init"
    /\ IF ok
       THEN /\ pc' = "body"
            /\ UNCHANGED <<unit, handle, open_handles, units_done, unit_status>>
       ELSE RaiseInEnter

\* the body of the with statement returns or raises
RunBody(ok) ==
    /\ pc = "body"
    /\ pc' = "exit"
    /\ unit_status' = IF ok THEN "returned" ELSE "raised"
    /\ UNCHANGED <<unit, handle, open_handles, units_done>>

\* SpatialEngine.__exit__: close, SpatialRepository.close,
\* ProjectManager.disconnect
ExitUnit ==
    /\ pc = "exit"
    /\ pc' = "idle"
    /\ open_handles' = open_handles \ {handle}
    /\ handle' = 0
    /\ UNCHANGED <<unit, units_done, unit_status>>

ConnectionFrame == UNCHANGED <<engine, naming, metadata, admin, migration, apply_last>>

DoBeginUnit == (\E u \in UnitsOfWork : BeginUnit(u)) /\ ConnectionFrame

DoSqliteConnect == (\E ok \in BOOLEAN : SqliteConnect(ok)) /\ ConnectionFrame

DoLoadSpatialite == (\E ok \in BOOLEAN : LoadSpatialite(ok)) /\ ConnectionFrame

DoInitStoreTables == (\E ok \in BOOLEAN : InitStoreTables(ok)) /\ ConnectionFrame

DoRunBody == (\E ok \in BOOLEAN : RunBody(ok)) /\ ConnectionFrame

DoExitUnit == ExitUnit /\ ConnectionFrame

NextConnection ==
    \/ DoBeginUnit
    \/ DoSqliteConnect
    \/ DoLoadSpatialite
    \/ DoInitStoreTables
    \/ DoRunBody
    \/ DoExitUnit

SpecConnection == Init /\ [][NextConnection]_vars

(***************************************************************************)
(* The use cases on one project: ApplyOverlay, record_assessment and       *)
(* rerun_spatial_assessment                                                *)
(***************************************************************************)

MaxApplyVersions == 4

\* the layers of the QGIS project by display name: two polygon layers to
\* assess, one of them with a space in its name, and a line layer
QgsLayers ==
    (<<"t">> :> SourceTables[<<"t">>])
 @@ (<<"p">> :> SourceTables[<<"p">>])
 @@ (<<"b"," ","2">> :> SourceTables[<<"t">>])
 @@ (<<"l">> :> SourceTables[<<"l">>])

\* the assessment layers of a command, each list without a repeated layer
ApplyLayerLists ==
    { <<>>, << <<"p">> >>, << <<"p">>, <<"b"," ","2">> >>,
      << <<"l">> >>, << <<"p">>, <<"l">> >> }

\* SpatialRepository.ensure_layer: migrate the layer unless its table exists
ensure_layer(tabs, layer_name) ==
    LET table_name == sanitize_table_name(layer_name)
    IN IF table_exists(tabs, table_name) THEN tabs
       ELSE PutTable(tabs, table_name, QgsLayers[layer_name])

\* ApplyOverlay.execute: for layer_ref in scenario['all_layers']
RECURSIVE prepare_layers(_, _)
prepare_layers(tabs, names) ==
    IF names = <<>> THEN tabs
    ELSE prepare_layers(ensure_layer(tabs, Head(names)), Tail(names))

\* one pass of the loop body once engine.overlay has returned or raised: out
\* is what the call left behind
overlay_step(prev, out) ==
    IF prev.status # "ok" THEN prev
    ELSE [versions |-> out.versions, tables |-> out.tables,
          status |-> out.status,
          output_tables |-> IF out.status = "ok"
                            THEN Append(prev.output_tables, out.table)
                            ELSE prev.output_tables]

\* one pass of the loop: engine.overlay(target, layer, output base name)
overlay_pass(prev, target_table, layer_table, base_name) ==
    overlay_step(prev, overlay_result(prev.versions, prev.tables, target_table,
                                      layer_table, base_name, "none"))

\* the loop of engine.overlay calls of a use case; the first call that
\* raises ends it, the calls before it keep their effect
run_overlays(st, target_table, layer_tables, base_names) ==
    LET after[k \in 0..Len(layer_tables)] ==
            IF k = 0 THEN st
            ELSE overlay_pass(after[k - 1], target_table, layer_tables[k],
                              base_names[k])
    IN after[Len(layer_tables)]

\* ApplyOverlay._validate
validate_command(project_db_id, assessment_name, layers) ==
    IF layers = <<>> THEN "ValidationError"
    ELSE IF assessment_name_exists(project_db_id, assessment_name)
    THEN "ValidationError"
    ELSE "ok"

UseCaseResult(op, status, project_db_id, assessment_name, target_layer, layers, outputs) ==
    [op |-> op, status |-> status, output_tables |-> outputs,
     assessment_name |-> assessment_name, target_layer |-> target_layer,
     assessment_layers |-> layers, project_db_id |-> project_db_id]

\* ApplyOverlay.execute, called by execute_spatial_assessment of the executor
\* of project project_db_id
ApplyOverlay(project_db_id, assessment_name, target_layer, layers) ==
    LET checked == validate_command(project_db_id, assessment_name, layers)
        project_id == project_prefix(project_db_id)
        prepared == prepare_layers(tables, <<target_layer>> \o layers)
        target_table == sanitize_table_name(target_layer)
        layer_tables == [k \in 1..Len(layers) |-> sanitize_table_name(layers[k])]
        base_names == [k \in 1..Len(layers) |->
                          make_base_name(project_id, assessment_name, layers[k],
                                         Len(layers))]
        ran == run_overlays([versions |-> versions, tables |-> prepared,
                             status |-> "ok", output_tables |-> <<>>],
                            target_table, layer_tables, base_names)
        Result(status, outputs) ==
            UseCaseResult("apply_overlay", status, project_db_id,
                          assessment_name, target_layer, layers, outputs)
    IN /\ Len(versions) + Len(layers) <= MaxApplyVersions
       /\ IF checked # "ok"
          THEN /\ apply_last' = Result(checked, <<>>)
               /\ UNCHANGED <<versions, tables>>
          ELSE IF project_db_id \notin DOMAIN projects
          THEN /\ apply_last' = Result("NotFound", <<>>)
               /\ UNCHANGED <<versions, tables>>
          ELSE \E out \in {ran} :
                  /\ versions' = out.versions
                  /\ tables' = out.tables
                  /\ apply_last' = Result(out.status, out.output_tables)

\* CreateScenario.execute, called by execute_simple_assessment of the
\* executor of project project_db_id: the two ValueErrors, then a memory
\* layer named {project_id}__{assessment_name}; the stores are not touched.
\* selected: the target layer has selected features
CreateScenario(project_db_id, assessment_name, target_layer, selected) ==
    LET project_id == project_prefix(project_db_id)
        layer_name == project_id \o <<"_","_">> \o assessment_name
        Result(status, outputs) ==
            UseCaseResult("create_scenario", status, project_db_id,
                          assessment_name, target_layer, <<>>, outputs)
    IN apply_last' =
          IF assessment_name_exists(project_db_id, assessment_name)
          THEN Result("ValidationError", <<>>)
          ELSE IF ~selected THEN Result("NoSelection", <<>>)
          ELSE Result("ok", <<layer_name>>)

\* the wizard hands the result of a successful use case to record_assessment
RecordWizard ==
    /\ apply_last.op \in {"apply_overlay", "create_scenario"}
    /\ apply_last.status = "ok"
    /\ RecordAssessment(apply_last.project_db_id, apply_last.assessment_name,
                        apply_last.target_layer, apply_last.assessment_layers,
                        apply_last.output_tables)
    /\ apply_last' = [apply_last EXCEPT !.op = "record_assessment"]

\* the scenario row by id, << >> for None
get_assessment(assessment_id) ==
    IF assessment_id \in DOMAIN assessments
    THEN << assessments[assessment_id] >>
    ELSE <<>>

\* AdminManager.get_assessment_layers: layer names of the rows of one type
get_assessment_layers(assessment_id, layer_type) ==
    LET Mine(r) == r.assessment_id = assessment_id /\ r.layer_type = layer_type
        rows == SelectSeq(assessment_layers, Mine)
    IN [k \in 1..Len(rows) |-> rows[k].layer_name]

\* bug: the layer name is appended for a single input layer too
rerun_base_name_always_suffixed(project_id, assessment_name, layer_name, input_count) ==
    project_id \o <<"_","_">> \o assessment_name \o <<"_">>
      \o replace_spaces(layer_name)

\* rerun_spatial_assessment: base_name of one input layer
rerun_base_name(project_id, assessment_name, layer_name, input_count) ==
    IF input_count = 1
    THEN project_id \o <<"_","_">> \o assessment_name
    ELSE project_id \o <<"_","_">> \o assessment_name \o <<"_">>
           \o replace_spaces(layer_name)

\* AssessmentExecutor.rerun_spatial_assessment by the executor of the
\* scenario's project: the overlays, then the output rows, their visibility
\* and a provenance with its task
Rerun(assessment_id) ==
    LET found == get_assessment(assessment_id)
        input_layers == get_assessment_layers(assessment_id, "input")
        assessment == found[1]
        project_id == project_prefix(assessment.project_id)
        target_table == sanitize_name(assessment.target_layer)
        layer_tables == [k \in 1..Len(input_layers) |-> sanitize_name(input_layers[k])]
        base_names == [k \in 1..Len(input_layers) |->
                          rerun_base_name(project_id, assessment.name,
                                          input_layers[k], Len(input_layers))]
        ran == run_overlays([versions |-> versions, tables |-> tables,
                             status |-> "ok", output_tables |-> <<>>],
                            target_table, layer_tables, base_names)
        prov_id == provenance_seq + 1
        task_id == task_seq + 1
        Result(status, outputs) ==
            UseCaseResult("rerun", status, 0, <<>>, <<>>, <<>>, outputs)
    IN /\ Len(versions) + Len(input_layers) <= MaxApplyVersions
       /\ prov_id \in Provenances
       /\ task_seq < MaxTasks
       /\ IF found = <<>> \/ input_layers = <<>>
          THEN /\ apply_last' = Result("None", <<>>)
               /\ UNCHANGED <<versions, tables, assessment_layers,
                              layer_visibility_state, provenance,
                              provenance_seq, task_details, task_seq>>
          ELSE IF assessment.project_id \notin DOMAIN projects
          THEN /\ apply_last' = Result("None", <<>>)
               /\ UNCHANGED <<versions, tables, assessment_layers,
                              layer_visibility_state, provenance,
                              provenance_seq, task_details, task_seq>>
          ELSE \E out \in {ran} :
             IF out.status # "ok"
             THEN /\ versions' = out.versions
                  /\ tables' = out.tables
                  /\ apply_last' = Result(out.status, <<>>)
                  /\ UNCHANGED <<assessment_layers, layer_visibility_state,
                                 provenance, provenance_seq, task_details,
                                 task_seq>>
             ELSE /\ versions' = out.versions
                  /\ tables' = out.tables
                  /\ assessment_layers' =
                        assessment_layers
                          \o LayerRows(assessment_id, out.output_tables, "output")
                  /\ layer_visibility_state' =
                        { r \in layer_visibility_state :
                            ~(/\ r.assessment_id = assessment_id
                              /\ \E k \in 1..Len(out.output_tables) :
                                    r.layer_name = out.output_tables[k]) }
                          \cup { VisibilityRow(assessment_id, out.output_tables[k], TRUE) :
                                 k \in 1..Len(out.output_tables) }
                  /\ provenance' = (prov_id :> [assessment_id |-> assessment_id])
                                      @@ provenance
                  /\ provenance_seq' = prov_id
                  /\ task_details' =
                        Append(task_details,
                               [id |-> task_id, provenance_id |-> prov_id,
                                parent_task_id |-> 0, step_order |-> 1])
                  /\ task_seq' = task_id
                  /\ apply_last' = Result("ok", out.output_tables)

\* one project with an empty store, no scenario yet
InitApply ==
    /\ versions = <<>>
    /\ tables = << >>
    /\ last = NoCall
    /\ okOverlays = [b \in Bases |-> 0]
    /\ onlyOk = TRUE
    /\ faults = 0
    /\ naming = NoNaming
    /\ InitMetadata
    /\ InitAux
    /\ projects = (1 :> [name |-> <<"A">>, db_path |-> project_db_path(<<"A">>),
                         is_deleted |-> FALSE])
    /\ project_seq = 1
    /\ assessments = << >>
    /\ assessment_seq = 0
    /\ assessment_layers = << >>
    /\ layer_visibility_state = {}
    /\ provenance = << >>
    /\ provenance_seq = 0
    /\ files = { project_db_path(<<"A">>) }
    /\ admin_last = NoAdminCall

DoApplyOverlay ==
    /\ \E p \in ProjectIds, name \in AdminScenarioNames, layers \in ApplyLayerLists :
          ApplyOverlay(p, name, <<"t">>, layers)
    /\ UNCHANGED <<last, okOverlays, onlyOk, faults, naming, metadata, admin,
                   migration, connection>>

DoCreateScenario ==
    /\ \E p \in ProjectIds, name \in AdminScenarioNames, selected \in BOOLEAN :
          CreateScenario(p, name, <<"t">>, selected)
    /\ UNCHANGED <<engine, naming, metadata, admin, migration, connection>>

DoRecordWizard ==
    /\ RecordWizard
    /\ UNCHANGED <<engine, naming, migration, connection>>

DoRerun ==
    /\ \E a \in AssessmentIds : Rerun(a)
    /\ UNCHANGED <<last, okOverlays, onlyOk, faults, naming, forest, projects,
                   project_seq, assessments, assessment_seq, files, admin_last,
                   migration, connection>>

DoSoftDeleteAssessment ==
    /\ \E a \in DOMAIN assessments : DeleteAssessment(a)
    /\ UNCHANGED <<engine, naming, metadata, migration, connection, apply_last>>

NextApply ==
    DoApplyOverlay \/ DoRecordWizard \/ DoRerun \/ DoSoftDeleteAssessment

SpecApply == InitApply /\ [][NextApply]_vars

\* the two ways the wizard creates a scenario, and its soft delete
NextScenario ==
    \/ DoApplyOverlay
    \/ DoCreateScenario
    \/ DoRecordWizard
    \/ DoSoftDeleteAssessment

SpecScenario == InitApply /\ [][NextScenario]_vars

-----------------------------------------------------------------------------
(* Reading the store                                                       *)

RowIds(vs) == { vs[i].id : i \in 1..Len(vs) }

\* indices of the rows of a base name, and of its rows flagged is_current
RowsOf(vs, base) == { i \in 1..Len(vs) : vs[i].scenario_name = base }
HeadsOf(vs, base) == { i \in RowsOf(vs, base) : vs[i].is_current }

\* the sanitized form of each scenario name
BaseOf == [n \in ScenarioNames |-> sanitize_name(n)]

\* base \o "__v" \o str(k), written out independently of the engine
SuffixedName(base, k) == base \o <<"_", "_", "v">> \o Dec(k)

\* the step just taken was a call of this kind (a stuttering step is exempt
\* from every [][...]_vars below)
Called(op) == last'.op = op

\* name ends with suffix
EndsWith(name, suffix) ==
    /\ Len(name) >= Len(suffix)
    /\ SubSeq(name, Len(name) - Len(suffix) + 1, Len(name)) = suffix

\* intermediate tables of an overlay that are still in the store
LeftoverTmp(tabs) ==
    { t \in DOMAIN tabs : EndsWith(t, TmpIntersectSuffix)
                            \/ EndsWith(t, TmpUnionSuffix) }

-----------------------------------------------------------------------------
(* Claims                                                                  *)

\* C1: every base name that has at least one SpatialVersion row has exactly one
\* row with is_current = true, after any sequence of Overlay, Rollback and
\* Compare calls, including Rollback with the id of another scenario's version.
C1_SingleHead ==
    \A b \in Bases :
        RowsOf(versions, b) # {} => Cardinality(HeadsOf(versions, b)) = 1

\* C2: after a sequence of N successful Overlay calls for a name (and nothing
\* but successful Overlay calls), exactly one version of the name is current
\* and ListVersions for the name returns exactly N rows.
C2_CountAfterOverlays ==
    onlyOk =>
        \A n \in ScenarioNames :
            LET b == BaseOf[n]
            IN /\ Len(list_versions(versions, n)) = okOverlays[b]
               /\ okOverlays[b] >= 1 => Cardinality(HeadsOf(versions, b)) = 1

C2_Witness ==
    /\ onlyOk
    /\ \E b \in Bases : okOverlays[b] = 2
    /\ \E b \in Bases : okOverlays[b] = 1

\* C3: the k-th successful Overlay for a base name produces the table
\* sanitize(base)__v{k}, whatever failed Overlay attempts, Rollbacks and
\* Compares came in between.
C3_GaplessNumbering ==
    (last.op = "overlay" /\ last.status = "ok") =>
        \E b \in Bases :
            /\ okOverlays[b] >= 1
            /\ last.table = SuffixedName(b, okOverlays[b])

\* C4: a successful Overlay records one new version whose parent is the id of
\* the version that was HEAD of the base name right before the call, or null
\* (0) if the name had no history.
C4_ParentIsPreviousHead ==
    [][ (Called("overlay") /\ last'.status = "ok") =>
            /\ Len(versions') = Len(versions) + 1
            /\ LET new == versions'[Len(versions')]
                   b == new.scenario_name
               IN /\ RowsOf(versions, b) = {} => new.parent_version_id = 0
                  /\ \A i \in HeadsOf(versions, b) :
                         new.parent_version_id = versions[i].id ]_vars

\* C5: after a successful Overlay the new version is the HEAD of its base name
\* and the only one, the returned table and version_id are those of the new
\* row, and the first Overlay on a name yields sanitize(name)__v1 with a null
\* parent.
C5_NewVersionIsHead ==
    [][ (Called("overlay") /\ last'.status = "ok") =>
            \A n \in ScenarioNames :
                (\E c \in OverlayCalls : Overlay(c[1][1], c[1][2], n, c[2])) =>
                    LET b == BaseOf[n]
                        new == versions'[Len(versions')]
                    IN /\ Len(versions') = Len(versions) + 1
                       /\ new.id = last'.version_id
                       /\ new.id \notin RowIds(versions)
                       /\ new.table_name = last'.table
                       /\ new.scenario_name = b
                       /\ last'.table \in DOMAIN tables'
                       /\ HeadsOf(versions', b) = { Len(versions') }
                       /\ RowsOf(versions, b) = {} =>
                              /\ last'.table = SuffixedName(b, 1)
                              /\ new.parent_version_id = 0 ]_vars

C5_Witness ==
    /\ last.op = "overlay"
    /\ last.status = "ok"
    /\ Len(versions) >= 2
    /\ versions[Len(versions)].parent_version_id # 0
    /\ \E i \in 1..Len(versions) : versions[i].parent_version_id = 0

\* C6: Rollback(scenario, v), v being a version of that scenario, makes v the
\* one and only current version of the scenario; when it returns, it returns
\* v's id and table name, and it returns unless the project store or the
\* layer to present fails.
C6_RollbackMovesHead ==
    [][ Called("rollback") =>
            \A n \in ScenarioNames, v \in VersionIds, f \in RollbackFaults :
                ( /\ f # "no_db"
                  /\ v \in RowsOf(versions, BaseOf[n])
                  /\ Rollback(n, v, f) ) =>
                    /\ HeadsOf(versions', BaseOf[n]) = {v}
                    /\ last'.status = "ok" =>
                           /\ last'.table = versions[v].table_name
                           /\ last'.version_id = v
                    /\ f = "none" => last'.status = "ok" ]_vars

C6_Witness ==
    /\ last.op = "rollback"
    /\ last.status = "ok"
    /\ \E i \in 1..Len(versions) :
          /\ versions[i].id = last.version_id
          /\ versions[i].is_current
          /\ \E j \in (i + 1)..Len(versions) :
                 versions[j].scenario_name = versions[i].scenario_name

\* C7: Rollback to an existing version id leaves the tables of the store as
\* they were (none created, dropped, renamed or rewritten, so no combine ran)
\* and changes no field of a version row other than is_current.
C7_RollbackFrame ==
    [][ (Called("rollback") /\ last'.status \in {"ok", "LayerError"}) =>
            /\ tables' = tables
            /\ Len(versions') = Len(versions)
            /\ \A i \in 1..Len(versions) :
                   versions'[i] =
                       [versions[i] EXCEPT !.is_current = versions'[i].is_current]
      ]_vars

C7_Witness ==
    /\ last.op = "rollback"
    /\ last.status = "ok"
    /\ Len(versions) = MaxVersions
    /\ ~versions[Len(versions)].is_current

\* C8: Rollback(scenario, version_id) fails with a not-found error whenever
\* version_id is not the id of a version of that scenario's base name, also
\* when it is the id of a version of another base name, and then no
\* is_current flag changes.
C8_RollbackNotFound ==
    [][ Called("rollback") =>
            \A n \in ScenarioNames, v \in VersionIds :
                ( /\ v \notin RowsOf(versions, BaseOf[n])
                  /\ Rollback(n, v, "none") ) =>
                    /\ last'.status = "NotFound"
                    /\ versions' = versions ]_vars

\* C9: Compare changes the is_current flag of no version, whether it succeeds
\* or fails, and creates, drops or renames no table.
C9_CompareFrame ==
    [][ Called("compare") => (versions' = versions /\ tables' = tables) ]_vars

C9_Witness ==
    /\ last.op = "compare"
    /\ last.status = "ok"
    /\ last.table # last.table_b
    /\ \E b \in Bases : Cardinality(RowsOf(versions, b)) >= 2

\* C10: Compare(scenario, a, b) fails with a not-found error if and only if a
\* or b is not the id of an existing version; when both exist it returns the
\* layers of a's table and of b's table.  (A call in which the project store
\* or a layer to present fails raises that failure instead.)
C10_CompareNotFound ==
    [][ Called("compare") =>
            \A n \in ScenarioNames, a \in CompareIds, b \in CompareIds,
               f \in CompareFaults :
                Compare(n, a, b, f) =>
                    LET missing == a \notin RowIds(versions)
                                   \/ b \notin RowIds(versions)
                    IN /\ last'.status = "NotFound" => missing
                       /\ f = "none" => (missing <=> last'.status = "NotFound")
                       /\ (f = "none" /\ ~missing) =>
                              /\ last'.status = "ok"
                              /\ last'.table = versions[a].table_name
                              /\ last'.table_b = versions[b].table_name
                       /\ last'.status = "ok" => (f = "none" /\ ~missing) ]_vars

C10_Witness ==
    /\ last.op = "compare"
    /\ last.status = "NotFound"
    /\ Len(versions) >= 1

\* C11: an Overlay whose two input tables differ in SRID, or of which one is
\* not polygon / multipolygon, or both, fails with GeometryIncompatible naming
\* exactly the failed checks, and leaves the tables (a leftover intermediate
\* table included) and the version rows as they were.
C11_IncompatibleLeavesStore ==
    [][ \A pr \in BadPairs, n \in ScenarioNames :
          (/\ pr[1] \in DOMAIN tables
           /\ pr[2] \in DOMAIN tables
           /\ Overlay(pr[1], pr[2], n, "none"))
          => /\ last'.status = "GeometryIncompatible"
             /\ "srid" \in last'.checks
                   <=> tables[pr[1]].srid # tables[pr[2]].srid
             /\ "type" \in last'.checks
                   <=> \E t \in {pr[1], pr[2]} :
                          tables[t].gtype \notin {"POLYGON", "MULTIPOLYGON"}
             /\ last'.checks # {}
             /\ last'.checks \subseteq {"srid", "type"}
             /\ tables' = tables
             /\ versions' = versions ]_vars

C11_Witness ==
    /\ last.op = "overlay"
    /\ last.status = "GeometryIncompatible"
    /\ last.checks = {"srid", "type"}
    /\ LeftoverTmp(tables) # {}

\* C12: an Overlay whose intersect combine, union combine or rename step fails
\* raises to its caller (it does not return a version), records no version
\* row and leaves the HEAD of its base name where it was.
C12_FailedStepRecordsNothing ==
    [][ /\ \A pr \in GoodPairs, n \in ScenarioNames :
            \A f \in {"intersect_query", "intersect_register", "union_query",
                       "union_register", "rename"} :
              Overlay(pr[1], pr[2], n, f)
              => /\ last'.status = "StoreError"
                 /\ last'.table = <<>>
                 /\ versions' = versions
        /\ (Called("overlay") /\ last'.status = "StoreError")
              => /\ versions' = versions
                 /\ \A b \in Bases : HeadsOf(versions', b) = HeadsOf(versions, b)
      ]_vars

C12_Witness ==
    /\ last.op = "overlay"
    /\ last.status = "StoreError"
    /\ \E t \in DOMAIN tables : EndsWith(t, TmpUnionSuffix)
    /\ \E b \in Bases : HeadsOf(versions, b) # {}

\* C13: the table named by a version row stays in the store with the content
\* it was recorded with through every later Overlay, Rollback, Compare and
\* ListVersions call on any name, and no two version rows name the same
\* table.
C13_VersionTablesImmutable ==
    [][ /\ \A i \in 1..Len(versions) :
            LET T == versions[i].table_name
            IN /\ T \in DOMAIN tables
               /\ T \in DOMAIN tables'
               /\ tables'[T] = tables[T]
        /\ \A i, j \in 1..Len(versions') :
            versions'[i].table_name = versions'[j].table_name => i = j
      ]_vars

\* a scenario whose name is the table of another scenario's version has been
\* overlaid after that version was recorded
C13_Witness ==
    /\ last.op = "overlay"
    /\ last.status = "ok"
    /\ \E i, j \in 1..Len(versions) :
          /\ i < j
          /\ versions[j].scenario_name = versions[i].table_name
          /\ versions[j].id = last.version_id
    /\ \A i \in 1..Len(versions) : versions[i].table_name \in DOMAIN tables

\* C14: no Overlay, Rollback, Compare or ListVersions call deletes a version
\* row or changes its id, base name, table name, description or parent id;
\* only is_current of an existing row may change.
C14_AppendOnly ==
    [][ /\ Len(versions') >= Len(versions)
        /\ \A i \in 1..Len(versions) :
            /\ versions'[i].id = versions[i].id
            /\ versions'[i].scenario_name = versions[i].scenario_name
            /\ versions'[i].table_name = versions[i].table_name
            /\ versions'[i].description = versions[i].description
            /\ versions'[i].parent_version_id = versions[i].parent_version_id
      ]_vars

\* a rollback has gone back past a newer version of the scenario
C14_Witness ==
    /\ last.op = "rollback"
    /\ last.status = "ok"
    /\ \E i \in 1..Len(versions) :
          /\ versions[i].id > last.version_id
          /\ versions[i].scenario_name
               = versions[last.version_id].scenario_name
          /\ ~versions[i].is_current

\* the id reached from version id after k parent steps, 0 once past the root
RECURSIVE Walk(_, _, _)
Walk(vs, id, k) ==
    IF k = 0 \/ id = 0 THEN id
    ELSE Walk(vs, get_version_by_id(vs, id)[1].parent_version_id, k - 1)

NewestOf(vs, base) ==
    CHOOSE i \in RowsOf(vs, base) : \A j \in RowsOf(vs, base) : j <= i

\* C15: for every base name with history, the parent pointers form one chain:
\* walking parents from the newest version visits every version of the name
\* exactly once, never leaves the name, and then reaches null (no cycle, no
\* branch, a single root).
C15_ParentChain ==
    \A b \in Bases :
        RowsOf(versions, b) # {} =>
            LET n == Cardinality(RowsOf(versions, b))
                newest == NewestOf(versions, b)
            IN /\ { Walk(versions, newest, k) : k \in 0..(n - 1) }
                    = RowsOf(versions, b)
               /\ Walk(versions, newest, n) = 0

\* a scenario has three versions, the last one created after a rollback
C15_Witness ==
    /\ last.op = "overlay"
    /\ last.status = "ok"
    /\ \E b \in Bases :
          /\ Cardinality(RowsOf(versions, b)) = 3
          /\ okOverlays[b] = 3
    /\ ~onlyOk

\* C16: ListVersions(name) returns all and only the version rows whose base
\* name is sanitize(name), each once and whole (parent pointer included),
\* newest first; two names with the same sanitized form get the same list.
C16_ListVersions ==
    [][ Called("list") =>
          \A n \in ScenarioNames :
            LET L == list_versions(versions', n)
            IN /\ { L[k].id : k \in 1..Len(L) } = RowsOf(versions', BaseOf[n])
               /\ Len(L) = Cardinality(RowsOf(versions', BaseOf[n]))
               /\ \A k \in 1..Len(L) : L[k] = versions'[L[k].id]
               /\ \A k \in 1..(Len(L) - 1) : L[k].id > L[k + 1].id
               /\ \A m \in ScenarioNames :
                     BaseOf[m] = BaseOf[n] => list_versions(versions', m) = L
      ]_vars

\* listed while one scenario has two versions and another has one
C16_Witness ==
    /\ last.op = "list"
    /\ \E b \in Bases : Cardinality(RowsOf(versions, b)) = 2
    /\ \E b \in Bases : Cardinality(RowsOf(versions, b)) = 1

\* C19: the table of a version produced by Overlay(..., output_name), with its
\* __v<digits> suffix removed, is sanitize(output_name), and ListVersions of
\* that recovered name contains the version; also when output_name itself
\* ends in __v<digits>.
C19_NameRoundTrip ==
    [][ /\ \A pr \in GoodPairs, n \in ScenarioNames :
            (Overlay(pr[1], pr[2], n, "none") /\ last'.status = "ok")
            => LET recovered == strip_version_suffix(last'.table)
                   L == list_versions(versions', recovered)
               IN /\ recovered = sanitize_name(n)
                  /\ \E k \in 1..Len(L) :
                        /\ L[k].id = last'.version_id
                        /\ L[k].table_name = last'.table
        /\ Called("overlay") =>
            \A i \in 1..Len(versions') :
              LET recovered == strip_version_suffix(versions'[i].table_name)
                  L == list_versions(versions', recovered)
              IN /\ recovered = versions'[i].scenario_name
                 /\ \E k \in 1..Len(L) : L[k] = versions'[i]
      ]_vars

\* the overlay was given a name that ends in __v1
C19_Witness ==
    /\ last.op = "overlay"
    /\ last.status = "ok"
    /\ \E n \in ScenarioNames :
          /\ EndsWith(n, <<"_", "_", "v", "1">>)
          /\ \E k \in 1..MaxVersions : last.table = SuffixedName(BaseOf[n], k)

\* s has three underscores in a row
HasTripleUnderscore(s) ==
    \E i \in 1..(Len(s) - 2) : s[i] = "_" /\ s[i + 1] = "_" /\ s[i + 2] = "_"

IsAlnum(c) == IsWordChar(c) /\ c # "_"

\* C17: sanitize(sanitize(x)) = sanitize(x) for every name x (the empty one,
\* those of underscores and symbols only and those starting with a digit
\* included), and sanitize(x) never has three underscores in a row.
C17_SanitizeIdempotent ==
    /\ naming.stage = "twice" => naming.twice = naming.once
    /\ naming.stage \in {"once", "twice"} => ~HasTripleUnderscore(naming.once)

\* sanitized twice: a name that starts with a digit and has a run of three
\* characters that become underscores
C17_Witness ==
    /\ naming.stage = "twice"
    /\ naming.name # <<>>
    /\ IsDigit(naming.name[1])
    /\ HasTripleUnderscore(ReplaceAndLower(naming.name))

\* C18: for every name, sanitize returns a non-empty name of lower-case
\* letters, digits and underscores that does not start with a digit, and a
\* "__" of the input that stands between two letters or digits is still a
\* "__" between the same two (lower-cased) characters in the result.  That
\* the result depends on the input alone is how the function is defined.
C18_SanitizeShape ==
    naming.stage \in {"once", "twice"} =>
        LET x == naming.name
            y == naming.once
        IN /\ y # <<>>
           /\ \A i \in 1..Len(y) :
                 y[i] \in Range(LowerLetters) \cup DigitChars \cup {"_"}
           /\ ~IsDigit(y[1])
           /\ \A i \in 2..(Len(x) - 2) :
                 (/\ x[i] = "_" /\ x[i + 1] = "_"
                  /\ IsAlnum(x[i - 1]) /\ IsAlnum(x[i + 2]))
                 => \E j \in 1..(Len(y) - 3) :
                       SubSeq(y, j, j + 3)
                         = <<LowerChar(x[i - 1]), "_", "_", LowerChar(x[i + 2])>>

\* sanitized: a name that starts with a digit, has an upper-case letter and a
\* "__" between two letters
C18_Witness ==
    /\ naming.stage = "once"
    /\ naming.name = <<"1", "B", "_", "_", "a">>
    /\ naming.once = <<"l","a","y","e","r","_","1","b","_","_","a">>

\* every node of a forest, at any depth
RECURSIVE NodesOf(_)
NodesOf(nodes) ==
    UNION { {nodes[k]} \cup NodesOf(nodes[k].children) : k \in 1..Len(nodes) }

\* number of nodes of a forest
RECURSIVE SizeOf(_)
SizeOf(nodes) ==
    IF nodes = <<>> THEN 0
    ELSE 1 + SizeOf(Head(nodes).children) + SizeOf(Tail(nodes))

Ascending(nodes) ==
    \A k \in 1..(Len(nodes) - 1) : nodes[k].step_order <= nodes[k + 1].step_order

\* C20: build_task_tree(provenance) returns a forest in which every task of
\* the provenance, and nothing else, is a node exactly once; the roots are
\* the tasks whose parent id is null or is not the id of a task of the
\* provenance, every other task is in the children list of its parent, and
\* the roots and every children list are in ascending step_order.
C20_TaskForest ==
    [][ \A p \in Provenances :
          BuildTaskTree(p) =>
            LET mine == { task_details[i] : i \in
                            { j \in 1..Len(task_details) :
                                task_details[j].provenance_id = p } }
                ids == { t.id : t \in mine }
                roots == forest'.roots
                nodes == NodesOf(roots)
            IN /\ { n.id : n \in nodes } = ids
               /\ SizeOf(roots) = Cardinality(mine)
               /\ { roots[k].id : k \in 1..Len(roots) }
                    = { t.id : t \in { u \in mine : u.parent_task_id = 0
                                          \/ u.parent_task_id \notin ids } }
               /\ \A n \in nodes :
                     { n.children[k].id : k \in 1..Len(n.children) }
                       = { t.id : t \in { u \in mine :
                                            /\ u.parent_task_id = n.id
                                            /\ u.parent_task_id \in ids } }
               /\ Ascending(roots)
               /\ \A n \in nodes : Ascending(n.children)
      ]_vars

\* the task id reached from task id after k parent steps, 0 once past a root
RECURSIVE TaskWalk(_, _, _)
TaskWalk(rows, id, k) ==
    IF k = 0 \/ id = 0 \/ id \notin TaskIds(rows) THEN id
    ELSE LET Hit(t) == t.id = id
         IN TaskWalk(rows, SelectSeq(rows, Hit)[1].parent_task_id, k - 1)

\* C21: after any create_provenance, add_task and delete_provenance calls,
\* the parent of every task with a non-null parent_task_id is a recorded task
\* of the same provenance, and following parents from any task ends at a
\* task without parent (no cycle).
C21_TaskParents ==
    \A i \in 1..Len(task_details) :
        LET t == task_details[i]
        IN /\ t.parent_task_id # 0 =>
                \E j \in 1..Len(task_details) :
                    /\ task_details[j].id = t.parent_task_id
                    /\ task_details[j].provenance_id = t.provenance_id
           /\ TaskWalk(task_details, t.id, Len(task_details)) = 0

ActiveProjects == { i \in DOMAIN projects : ~projects[i].is_deleted }
ActiveAssessments == { a \in DOMAIN assessments : ~assessments[a].is_deleted }

\* C25: after any creates, soft-deletes and purges of projects and scenarios,
\* no two scenarios of one project that are not soft-deleted share a name and
\* no two projects that are not soft-deleted share a name; a create whose name
\* is taken ends with an error and adds no row.
C25_UniqueNames ==
  /\ [](/\ \A i, j \in ActiveProjects :
            projects[i].name = projects[j].name => i = j
        /\ \A a, b \in ActiveAssessments :
            (/\ assessments[a].project_id = assessments[b].project_id
             /\ assessments[a].name = assessments[b].name) => a = b)
  /\ [][/\ (\E name \in ProjectNames :
              /\ CreateProject(name)
              /\ \E i \in ActiveProjects : projects[i].name = name)
          => /\ admin_last'.status = "error"
             /\ projects' = projects
       /\ (\E p \in ProjectIds, name \in AdminScenarioNames, l \in WizardLayers :
              /\ RecordAssessment(p, name, <<"t">>, l,
                                  OutputTables(project_prefix(p), name, l))
              /\ \E a \in ActiveAssessments :
                    /\ assessments[a].project_id = p
                    /\ assessments[a].name = name)
          => /\ admin_last'.status = "error"
             /\ assessments' = assessments
             /\ assessment_layers' = assessment_layers]_vars

C25_Witness ==
    /\ admin_last.op = "create_assessment"
    /\ admin_last.status = "error"
    /\ Cardinality(ActiveProjects) = 2
    /\ Cardinality(ActiveAssessments) = 2
    /\ DOMAIN assessments = ActiveAssessments
    /\ \A a \in ActiveAssessments : assessments[a].project_id = 1

\* C26: soft-deleting a project sets is_deleted on the project and on every
\* scenario of it, removes no row (scenarios, layer references, visibility,
\* provenance and tasks stay), leaves every store file on disk and changes
\* nothing of any other project; soft-deleting a scenario sets the flag of
\* that scenario only.
C26_SoftDeleteFrame ==
    [][/\ \A p \in ProjectIds : DeleteProject(p) =>
            /\ DOMAIN projects' = DOMAIN projects
            /\ \A i \in DOMAIN projects :
                  projects'[i] = IF i = p
                                 THEN [projects[i] EXCEPT !.is_deleted = TRUE]
                                 ELSE projects[i]
            /\ DOMAIN assessments' = DOMAIN assessments
            /\ \A a \in DOMAIN assessments :
                  assessments'[a] =
                      IF assessments[a].project_id = p
                      THEN [assessments[a] EXCEPT !.is_deleted = TRUE]
                      ELSE assessments[a]
            /\ UNCHANGED <<assessment_layers, layer_visibility_state,
                           provenance, task_details, files>>
       /\ \A d \in AssessmentIds : DeleteAssessment(d) =>
            /\ DOMAIN assessments' = DOMAIN assessments
            /\ \A a \in DOMAIN assessments :
                  assessments'[a] =
                      IF a = d
                      THEN [assessments[a] EXCEPT !.is_deleted = TRUE]
                      ELSE assessments[a]
            /\ UNCHANGED <<projects, assessment_layers, layer_visibility_state,
                           provenance, task_details, files>>]_vars

C26_Witness ==
    /\ admin_last = AdminCall("delete_project", "ok", 1)
    /\ DOMAIN projects = {1, 2}
    /\ projects[1].is_deleted /\ ~projects[2].is_deleted
    /\ DOMAIN assessments = {1, 2}
    /\ assessments[1].project_id = 1 /\ assessments[1].is_deleted
    /\ assessments[2].project_id = 2 /\ ~assessments[2].is_deleted
    /\ \E k \in 1..Len(task_details) :
          provenance[task_details[k].provenance_id].assessment_id = 1
    /\ \E r \in layer_visibility_state : r.assessment_id = 1
    /\ projects[1].db_path \in files

\* the rows that hang on scenario a, directly or through its provenance
DependentsOf(a, layers, visibility, prov, tasks) ==
    /\ \A k \in 1..Len(layers) : layers[k].assessment_id # a
    /\ \A r \in visibility : r.assessment_id # a
    /\ \A p \in DOMAIN prov : prov[p].assessment_id # a
    /\ \A k \in 1..Len(tasks) : tasks[k].provenance_id \in DOMAIN prov

\* C27: after purge_assessment(a) no layer reference, visibility, provenance
\* or task row that referenced a is left; after purge_project(p), of a
\* soft-deleted project or not, the project row, its scenarios and all their
\* dependents are gone and the project's store file is no longer on disk.
C27_PurgeRemovesAll ==
    [][/\ \A a \in AssessmentIds : PurgeAssessment(a) =>
            /\ a \notin DOMAIN assessments'
            /\ DependentsOf(a, assessment_layers', layer_visibility_state',
                            provenance', task_details')
       /\ \A p \in ProjectIds :
            (\E removable \in BOOLEAN : PurgeProject(p, removable)) =>
               /\ p \notin DOMAIN projects'
               /\ \A a \in DOMAIN assessments :
                     assessments[a].project_id = p =>
                        /\ a \notin DOMAIN assessments'
                        /\ DependentsOf(a, assessment_layers',
                                        layer_visibility_state',
                                        provenance', task_details')
               /\ p \in DOMAIN projects =>
                     projects[p].db_path \notin files']_vars

\* C29: after any set_layer_visibility calls there is at most one row for a
\* scenario and a layer name, get_layer_visibility of the scenario gives each
\* layer the value of the most recent call for that pair, and a call for
\* another scenario or another layer does not change it.
C29_VisibilityLastWins ==
  /\ [](\A r, q \in layer_visibility_state :
           (r.assessment_id = q.assessment_id /\ r.layer_name = q.layer_name)
              => r = q)
  /\ [][\A a \in AssessmentIds, l \in VisibilityLayers, visible \in BOOLEAN :
           (SetLayerVisibility(a, l, visible) /\ admin_last'.status = "ok") =>
              /\ <<l, visible>> \in get_layer_visibility(layer_visibility_state', a)
              /\ \A b \in AssessmentIds :
                    { it \in get_layer_visibility(layer_visibility_state', b) :
                         b # a \/ it[1] # l }
                    = { it \in get_layer_visibility(layer_visibility_state, b) :
                         b # a \/ it[1] # l }]_vars

C29_Witness ==
    /\ admin_last = AdminCall("set_layer_visibility", "ok", 1)
    /\ get_layer_visibility(layer_visibility_state, 1)
          = { << <<"x">>, FALSE >>, << <<"y">>, TRUE >> }
    /\ \E it \in get_layer_visibility(layer_visibility_state, 2) : ~it[2]

\* C28: connecting to a metadata file any number of times, be it new, of an
\* old schema or migrated, never raises for a column that is already there,
\* gives the same columns as connecting once, and keeps every row.
C28_MigrationIdempotent ==
    [][Connect =>
          /\ connect_status' = "ok"
          /\ \A t \in MigratedTables :
                /\ schema'[t] = NewColumns(t)
                /\ Len(stored_rows'[t]) = Len(stored_rows[t])
                /\ \A k \in 1..Len(stored_rows[t]) :
                      \A c \in DOMAIN stored_rows[t][k] :
                          stored_rows'[t][k][c] = stored_rows[t][k][c]
          /\ connects >= 1 => schema' = schema /\ stored_rows' = stored_rows]_vars

C28_Witness ==
    /\ connects = 2
    /\ connect_status = "ok"
    /\ Len(stored_rows["projects"]) = 1
    /\ stored_rows["projects"][1]["is_deleted"] = "v"
    /\ stored_rows["projects"][1]["workspace_paths"] = "default"
    /\ Len(stored_rows["task_details"]) = 1
    /\ stored_rows["task_details"][1]["is_scenario"] = "default"

\* C24: once a unit of work of the engine (overlay, rollback, compare, list
\* versions) has returned or raised, an error raised while the store is being
\* opened included, no connection to the project store is open.
C24_NoOpenConnection ==
    (pc = "idle" /\ unit_status \in {"returned", "raised"}) => open_handles = {}

\* C22: once a scenario named X has been created in project P,
\* assessment_name_exists(P, X) is true, and ApplyOverlay for X in P is
\* rejected with a validation error before the store is opened: no layer is
\* materialized, no table is created, no version row is added or re-pointed.
C22_DuplicateNameRejected ==
  /\ [](\A a \in DOMAIN assessments :
           assessment_name_exists(assessments[a].project_id, assessments[a].name))
  /\ [][\A p \in ProjectIds, name \in AdminScenarioNames, layers \in ApplyLayerLists :
           (/\ ApplyOverlay(p, name, <<"t">>, layers)
            /\ \E a \in DOMAIN assessments :
                  assessments[a].project_id = p /\ assessments[a].name = name)
           => /\ apply_last'.status = "ValidationError"
              /\ tables' = tables
              /\ versions' = versions]_vars

C22_Witness ==
    /\ apply_last.op = "apply_overlay"
    /\ apply_last.status = "ValidationError"
    /\ apply_last.assessment_layers # <<>>
    /\ \E a \in DOMAIN assessments :
          /\ assessments[a].project_id = apply_last.project_db_id
          /\ assessments[a].name = apply_last.assessment_name
          /\ assessments[a].is_deleted
    /\ versions # <<>>

\* C23: every validation failure of ApplyOverlay (duplicate scenario name,
\* empty assessment-layer list, geometry incompatibility between the target
\* and one of the assessment layers) is raised before the store is changed:
\* no input layer is materialized as a table, no result table exists and no
\* version row is recorded, also for the layers before the offending one.
C23_ValidationBeforeMutation ==
    [][\A p \in ProjectIds, name \in AdminScenarioNames, layers \in ApplyLayerLists :
          (/\ ApplyOverlay(p, name, <<"t">>, layers)
           /\ apply_last'.status \in {"ValidationError", "GeometryIncompatible"})
          => /\ tables' = tables
             /\ versions' = versions]_vars

\* C30: a re-run adds to the history of the first run: for each input layer
\* rerun_spatial_assessment computes the base name ApplyOverlay computed for
\* it, with one layer and with several, so with n versions recorded under
\* that base name it creates table base__v{n+1} and makes it the HEAD.
C30_RerunSameHistory ==
    [][\A a \in AssessmentIds :
          (Rerun(a) /\ apply_last'.status = "ok") =>
             LET layers == get_assessment_layers(a, "input")
                 project_id == project_prefix(assessments[a].project_id)
             IN \A k \in 1..Len(layers) :
                   LET base == sanitize_name(
                                   make_base_name(project_id, assessments[a].name,
                                                  layers[k], Len(layers)))
                       n == Len(get_versions(versions, base))
                       created == versioned_table_name(base, n + 1)
                       head == get_current_version(versions', base)
                   IN /\ n >= 1
                      /\ apply_last'.output_tables[k] = created
                      /\ table_exists(tables', created)
                      /\ Len(get_versions(versions', base)) = n + 1
                      /\ Len(head) = 1
                      /\ head[1].table_name = created]_vars

C30_Witness ==
    /\ apply_last.op = "rerun"
    /\ apply_last.status = "ok"
    /\ Len(apply_last.output_tables) = 2
    /\ Len(versions) = 4

\* C31: assessment_name_exists(project, name) is true exactly when a scenario
\* row with that project id and exactly that name exists, soft-deleted rows
\* counted; so the name of a soft-deleted scenario that has not been purged
\* is still refused by the name gates of ApplyOverlay and CreateScenario.
C31_SoftDeletedNameRefused ==
  /\ [](\A p \in ProjectIds, name \in AdminScenarioNames :
           assessment_name_exists(p, name)
             <=> \E a \in DOMAIN assessments, deleted \in BOOLEAN :
                    /\ assessments[a].project_id = p
                    /\ assessments[a].name = name
                    /\ assessments[a].is_deleted = deleted)
  /\ [][\A p \in ProjectIds, name \in AdminScenarioNames :
           (\E a \in DOMAIN assessments :
               /\ assessments[a].project_id = p
               /\ assessments[a].name = name
               /\ assessments[a].is_deleted)
           => /\ \A layers \in ApplyLayerLists :
                    ApplyOverlay(p, name, <<"t">>, layers)
                      => apply_last'.status = "ValidationError"
              /\ \A selected \in BOOLEAN :
                    CreateScenario(p, name, <<"t">>, selected)
                      => apply_last'.status = "ValidationError"]_vars

C31_Witness ==
    /\ apply_last.op = "create_scenario"
    /\ apply_last.status = "ValidationError"
    /\ \A a \in DOMAIN assessments :
          (/\ assessments[a].project_id = apply_last.project_db_id
           /\ assessments[a].name = apply_last.assessment_name)
          => assessments[a].is_deleted
    /\ \E a \in DOMAIN assessments : ~assessments[a].is_deleted

\* C32: all-or-nothing Overlay: whenever an Overlay call raises, at whichever
\* step (intersect, union, rename, drop of the intermediate, recording the
\* version, materializing the layer), the version rows and their is_current
\* flags are exactly those from before the call.
C32_OverlayAllOrNothing ==
    [][ (Called("overlay") /\ last'.status # "ok") => versions' = versions ]_vars

\* C33: all-or-nothing Rollback: whenever a Rollback call raises (unknown
\* version id, or the version's table cannot be materialized as a layer),
\* the is_current flags of every scenario are exactly those from before the
\* call.
C33_RollbackAllOrNothing ==
    [][ (Called("rollback") /\ last'.status # "ok") =>
            \A i \in 1..Len(versions) :
                versions'[i].is_current = versions[i].is_current ]_vars

\* C34: no intermediate table survives an Overlay: after every Overlay call,
\* returned or raised, the store has no table named {versioned}_tmp_intersect
\* or {versioned}_tmp_union.
C34_NoIntermediateTable ==
    last.op = "overlay" => LeftoverTmp(tables) = {}

\* C35: no orphaned promoted table: between operations every table named
\* base__v{n} is the table of exactly one version row, also after an Overlay
\* that failed after its rename step, so a later Overlay never finds the
\* versioned name it computes already taken.
C35_NoOrphanedTable ==
  /\ [](\A t \in DOMAIN tables :
           (\E b \in Bases, n \in 1..MaxVersions : t = SuffixedName(b, n))
           => Cardinality({ i \in 1..Len(versions) :
                              versions[i].table_name = t }) = 1)
  /\ [][ Called("overlay") =>
            \A b \in Bases :
               ~table_exists(tables,
                             SuffixedName(b, Len(get_versions(versions, b)) + 1))
       ]_vars

\* C36: disjoint histories: two scenarios of one project whose names differ
\* and both pass the name gate (names that differ only in letter case,
\* spaces or punctuation, say) have disjoint version histories: an
\* ApplyOverlay run for one adds no version to the history of the other and
\* does not move its HEAD.
C36_DisjointHistories ==
    [][\A p \in ProjectIds, name \in AdminScenarioNames, layers \in ApplyLayerLists :
          ApplyOverlay(p, name, <<"t">>, layers)
          => \A a \in DOMAIN assessments :
                (assessments[a].project_id = p /\ assessments[a].name # name)
                => LET inputs == get_assessment_layers(a, "input")
                   IN \A k \in 1..Len(inputs) :
                         LET base == sanitize_name(
                                        make_base_name(project_prefix(p),
                                                       assessments[a].name,
                                                       inputs[k], Len(inputs)))
                         IN get_versions(versions', base)
                              = get_versions(versions, base)]_vars

\* C37: project isolation: any two project rows made by create_project have
\* different store paths, so purging one project never removes the store of
\* another.
C37_ProjectIsolation ==
  /\ [](\A p, q \in DOMAIN projects :
           p # q => projects[p].db_path # projects[q].db_path)
  /\ [][\A p \in ProjectIds :
           (\E removable \in BOOLEAN : PurgeProject(p, removable))
           => \A q \in DOMAIN projects \ {p} :
                 projects[q].db_path \in files
                    => projects[q].db_path \in files']_vars

\* C38: create_project is all-or-nothing: when initializing the project's
\* store fails (connection or extension load error) no project row remains
\* in the metadata store and no connection to the project store is left
\* open; when it succeeds exactly one project row has been added and the
\* store connection is closed.
C38_CreateProjectAllOrNothing ==
    [][\A name \in ProjectNames, store \in StoreOutcomes :
          (create_project(name, store) /\ ~project_name_taken(name))
          => /\ open_handles' = open_handles
             /\ IF store = "ok"
                THEN /\ admin_last'.status = "ok"
                     /\ DOMAIN projects' = DOMAIN projects \cup {admin_last'.id}
                     /\ admin_last'.id \notin DOMAIN projects
                ELSE /\ admin_last'.status = "StoreError"
                     /\ projects' = projects]_vars

====
